---- MODULE Spec2Model ----
(***************************************************************************)
(* Serverless image handler: ImageHandler.process with its output-bucket   *)
(* cache (S3Operations / DbOperations), the upload-notification batch      *)
(* controller (handleS3Event) and the request handler with its two         *)
(* delivery modes (handler / handleRequest).                               *)
(***************************************************************************)
EXTENDS Integers, Sequences, FiniteSets, TLC

(***************************************************************************)
(* Strings and the 32-bit rolling hash of generateImageId                  *)
(***************************************************************************)

\* String.prototype.charCodeAt for the characters that occur in the modelled
\* requests (ASCII).
CharCode ==
  ( "a" :> 97 @@ "b" :> 98 @@ "c" :> 99 @@ "d" :> 100 @@ "e" :> 101 @@ "f" :> 102
 @@ "g" :> 103 @@ "h" :> 104 @@ "i" :> 105 @@ "j" :> 106 @@ "k" :> 107 @@ "l" :> 108
 @@ "m" :> 109 @@ "n" :> 110 @@ "o" :> 111 @@ "p" :> 112 @@ "q" :> 113 @@ "r" :> 114
 @@ "s" :> 115 @@ "t" :> 116 @@ "u" :> 117 @@ "v" :> 118 @@ "w" :> 119 @@ "x" :> 120
 @@ "y" :> 121 @@ "z" :> 122 @@ "F" :> 70 @@ "M" :> 77
 @@ "0" :> 48 @@ "1" :> 49 @@ "2" :> 50 @@ "3" :> 51 @@ "4" :> 52 @@ "5" :> 53
 @@ "6" :> 54 @@ "7" :> 55 @@ "8" :> 56 @@ "9" :> 57
 @@ "/" :> 47 @@ "." :> 46 @@ "-" :> 45 @@ "{" :> 123 @@ "}" :> 125 @@ ":" :> 58
 @@ "," :> 44 @@ "\"" :> 34 @@ "#" :> 35 @@ "_" :> 95 )

CharAt(s, i) == SubSeq(s, i, i)

\* The hash is kept as two 16-bit halves <<hi, lo>> of its 32-bit pattern, so
\* that no intermediate value leaves the 32-bit range.
Half == 2 ^ 16

\* hash = ((hash << 5) - hash) + char; hash = hash & hash
\* i.e. (31 * hash + char) truncated to 32 bits.
HashStep(h, c) ==
  LET lo == 31 * h[2] + c
      hi == 31 * h[1] + (lo \div Half)
  IN  << hi % Half, lo % Half >>

\* u * v for two 16-bit numbers, as halves, through 8-bit digits
Mul16(u, v) ==
  LET a1 == u \div 256
      a0 == u % 256
      b1 == v \div 256
      b0 == v % 256
      low == (a1 * b0 + a0 * b1) * 256 + a0 * b0
  IN  << a1 * b1 + (low \div Half), low % Half >>

\* (u * v) mod 2^16
MulLow16(u, v) == ((((u * (v \div 256)) % 256) * 256) + u * (v % 256)) % Half

\* x * y and x + y, truncated to 32 bits
MulMod(x, y) ==
  LET p == Mul16(x[2], y[2])
  IN  << (p[1] + MulLow16(x[1], y[2]) + MulLow16(x[2], y[1])) % Half, p[2] >>

AddMod(x, y) ==
  LET lo == x[2] + y[2]
  IN  << (x[1] + y[1] + (lo \div Half)) % Half, lo % Half >>

RECURSIVE Pow31(_)
\* 31^k truncated to 32 bits
Pow31(k) ==
  IF k = 0 THEN << 0, 1 >>
  ELSE LET sq == CHOOSE q \in { MulMod(h, h) : h \in { Pow31(k \div 2) } } : TRUE
       IN  IF k % 2 = 1 THEN MulMod(sq, << 0, 31 >>) ELSE sq

RECURSIVE HashRange(_, _, _)
\* What the loop makes of hash 0 over the characters a..b of s.  The loop's
\* steps are h -> 31 * h + char (HashStep); over a range they compose to
\* hash(a..m) * 31^(b - m) + hash(m+1..b), which is evaluated here by halving
\* the range, so that long request strings need no deep nesting.
HashRange(s, a, b) ==
  IF a > b THEN << 0, 0 >>
  ELSE IF a = b THEN HashStep(<< 0, 0 >>, CharCode[CharAt(s, a)])
  ELSE LET m == (a + b) \div 2
       IN  AddMod(MulMod(HashRange(s, a, m), Pow31(b - m)), HashRange(s, m + 1, b))

RollingHash(s) == HashRange(s, 1, Len(s))

\* Math.abs of the signed 32-bit value, again as two halves (the magnitude of
\* -2^31 is 2^31 = <<32768, 0>>).
AbsHash(h) ==
  IF h[1] < 32768 THEN h
  ELSE IF h[2] = 0 THEN << Half - h[1], 0 >>
       ELSE << Half - 1 - h[1], Half - h[2] >>

HexDigit == << "0", "1", "2", "3", "4", "5", "6", "7",
               "8", "9", "a", "b", "c", "d", "e", "f" >>

RECURSIVE HexOf(_)
\* Number.prototype.toString(16) of a non-negative number below 65536.
HexOf(n) == IF n < 16 THEN HexDigit[n + 1]
            ELSE HexOf(n \div 16) \o HexDigit[(n % 16) + 1]

RECURSIVE PadHex(_)
PadHex(s) == IF Len(s) >= 4 THEN s ELSE PadHex("0" \o s)

\* Math.abs(hash).toString(16)
HashHex(h) ==
  LET a == AbsHash(h)
  IN  IF a[1] = 0 THEN HexOf(a[2]) ELSE HexOf(a[1]) \o PadHex(HexOf(a[2]))

RECURSIVE LastIndexOf(_, _, _)
\* String.prototype.lastIndexOf(ch) searched from position i down; 0 = not found.
LastIndexOf(s, ch, i) ==
  IF i = 0 THEN 0
  ELSE IF CharAt(s, i) = ch THEN i ELSE LastIndexOf(s, ch, i - 1)

RECURSIVE IndexOf(_, _, _)
\* First position of ch at or after i; Len(s) + 1 = not found.
IndexOf(s, ch, i) ==
  IF i > Len(s) THEN Len(s) + 1
  ELSE IF CharAt(s, i) = ch THEN i ELSE IndexOf(s, ch, i + 1)

\* key.split('/').pop()
LastSegment(key) == SubSeq(key, LastIndexOf(key, "/", Len(key)) + 1, Len(key))

\* s.split('.')[0]
FirstDotPart(s) == SubSeq(s, 1, IndexOf(s, ".", 1) - 1)

(***************************************************************************)
(* Enumerations and constants of the image handler                         *)
(***************************************************************************)

\* ImageFormatTypes: the supported source / output formats.
ImageFormatTypes == { "jpeg", "png", "webp", "tiff", "gif", "avif" }

\* StatusCodes
StatusOK == 200
StatusBadRequest == 400
StatusRequestTooLong == 413
StatusInternalServerError == 500
StatusTimeout == 503

SHARP_EDIT_ALLOWLIST_ARRAY ==
  { "removeAlpha", "ensureAlpha", "extractChannel", "joinChannel", "bandbool",
    "tint", "greyscale", "grayscale", "pipelineColourspace", "pipelineColorspace",
    "toColourspace", "toColorspace",
    "rotate", "flip", "flop", "affine", "sharpen", "median", "blur", "flatten",
    "unflatten", "gamma", "negate", "normalise", "normalize", "clahe", "convolve",
    "threshold", "boolean", "linear", "recomb", "modulate",
    "jpeg", "png", "webp", "gif", "avif", "tiff", "heif", "toFormat",
    "resize", "extend", "extract", "trim" }

ALTERNATE_EDIT_ALLOWLIST_ARRAY ==
  { "overlayWith", "smartCrop", "roundCrop", "contentModeration", "crop", "animated" }

\* AllowlistedEdit: the keys the ImageEdits type admits.
AllowlistedEdit == SHARP_EDIT_ALLOWLIST_ARRAY \cup ALTERNATE_EDIT_ALLOWLIST_ARRAY

(***************************************************************************)
(* Requests                                                                *)
(***************************************************************************)

\* A value that is absent (undefined) in the request object.
Absent == "<absent>"

\* Source images (originalImage).  format is what Sharp(...).metadata() reports
\* ("none": the probe throws); decodes tells whether the engine can decode the
\* pixel data; len is the byte length.
Images ==
  { [name |-> "pngA", format |-> "png",  decodes |-> TRUE,  len |-> 3],
    [name |-> "jpgB", format |-> "jpeg", decodes |-> TRUE,  len |-> 5],
    [name |-> "svgC", format |-> "svg",  decodes |-> TRUE,  len |-> 2],
    [name |-> "junk", format |-> "none", decodes |-> FALSE, len |-> 1],
    [name |-> "cut",  format |-> "png",  decodes |-> FALSE, len |-> 4],
    \* 4718592 bytes make 6291456 base64 characters, the payload limit
    [name |-> "fit",  format |-> "png",  decodes |-> TRUE,  len |-> 4718592],
    [name |-> "over", format |-> "png",  decodes |-> TRUE,  len |-> 4718593],
    \* the default fallback image, small or beyond the limit
    [name |-> "fbSmall", format |-> "png", decodes |-> TRUE, len |-> 2],
    [name |-> "fbHuge",  format |-> "png", decodes |-> TRUE, len |-> 4718593] }

Image(n) == CHOOSE im \in Images : im.name = n

\* An edits object: given tells whether the request has one (edits !== undefined);
\* entries are its properties in insertion order, each with the key, the JSON
\* text of its value (Absent: the value undefined) and the value's truthiness.
Edit(k, v, t) == [k |-> k, v |-> v, truthy |-> t]
NoEdits == [given |-> FALSE, entries |-> << >>]
Edits(entries) == [given |-> TRUE, entries |-> entries]

EditKeys(edits) == { edits.entries[i].k : i \in DOMAIN edits.entries }

HasKey(edits, k) == k \in EditKeys(edits)

\* edits[k] of a key that is present
EditOf(edits, k) ==
  edits.entries[CHOOSE i \in DOMAIN edits.entries : edits.entries[i].k = k]

\* if (edits.k)
Truthy(edits, k) == HasKey(edits, k) /\ EditOf(edits, k).truthy

\* edits.k !== undefined
Defined(edits, k) == HasKey(edits, k) /\ EditOf(edits, k).v # Absent

RECURSIVE JoinEntries(_, _, _)
\* The members of JSON.stringify's object text from entry i on; a property
\* whose value is undefined is left out.
JoinEntries(entries, i, first) ==
  IF i > Len(entries) THEN ""
  ELSE IF entries[i].v = Absent THEN JoinEntries(entries, i + 1, first)
  ELSE (IF first THEN "" ELSE ",")
       \o "\"" \o entries[i].k \o "\":" \o entries[i].v
       \o JoinEntries(entries, i + 1, FALSE)

\* JSON.stringify(edits)
StringifyEdits(edits) == "{" \o JoinEntries(edits.entries, 1, TRUE) \o "}"

\* The id with the format of the source image hashed in as well.
generateImageId_WithSource(r) ==
  LET editString    == IF r.edits.given THEN StringifyEdits(r.edits) ELSE ""
      fmt           == IF r.outputFormat # Absent THEN r.outputFormat ELSE ""
      requestString == r.bucket \o "/" \o r.key \o "/" \o editString \o "/" \o fmt
                         \o "/" \o Image(r.originalImage).format
      hashHex       == HashHex(RollingHash(requestString))
      ext           == IF r.outputFormat # Absent THEN r.outputFormat ELSE "jpg"
      base          == FirstDotPart(LastSegment(r.key))
  IN  (IF base # "" THEN base ELSE "image") \o "-" \o hashHex \o "." \o ext

\* generateImageId (output formats are lower-case already, so toLowerCase
\* leaves them as they are)
generateImageId(r) ==
  LET editString    == IF r.edits.given THEN StringifyEdits(r.edits) ELSE ""
      fmt           == IF r.outputFormat # Absent THEN r.outputFormat ELSE ""
      requestString == r.bucket \o "/" \o r.key \o "/" \o editString \o "/" \o fmt
      hashHex       == HashHex(RollingHash(requestString))
      ext           == IF r.outputFormat # Absent THEN r.outputFormat ELSE "jpg"
      base          == FirstDotPart(LastSegment(r.key))
  IN  (IF base # "" THEN base ELSE "image") \o "-" \o hashHex \o "." \o ext

\* An ImageRequestInfo.  ContentType is the (capitalised) property process()
\* looks for; originalImage names the source image.
Request(bucket, key, edits, outputFormat, image, declared) ==
  [bucket |-> bucket, key |-> key, edits |-> edits, outputFormat |-> outputFormat,
   originalImage |-> image, ContentType |-> declared]

ResizeOnly == Edits(<< Edit("resize", "{\"width\":100}", TRUE) >>)

\* The requests of the model.
ReqA     == Request("b", "u/a.png", ResizeOnly, "webp", "pngA", Absent)
\* the same request after the source object was overwritten
ReqA2    == Request("b", "u/a.png", ResizeOnly, "webp", "jpgB", Absent)
ReqA3    == Request("b", "u/a.png", ResizeOnly, "webp", "svgC", Absent)
\* no edits, no output format
ReqPass  == Request("b", "u/a.png", NoEdits, Absent, "pngA", Absent)
\* a source the engine cannot probe
ReqJunk  == Request("b", "u/j.png", NoEdits, "jpeg", "junk", Absent)
\* a source the engine can probe but not decode, with and without edits
ReqCutE  == Request("b", "u/c.png", Edits(<< Edit("grayscale", "true", TRUE) >>),
                    Absent, "cut", Absent)
ReqCutF  == Request("b", "u/c.png", NoEdits, "jpeg", "cut", Absent)
\* a declared content type
ReqDecl  == Request("b", "u/a.png", NoEdits, Absent, "pngA", "image/png")
\* an edit key outside the allow-list next to an allow-listed one
ReqOut   == Request("b", "u/a.png",
                    Edits(<< Edit("resize", "{\"width\":100}", TRUE),
                             Edit("compress", "true", TRUE) >>),
                    Absent, "pngA", Absent)

Requests == { ReqA, ReqA2, ReqA3, ReqPass, ReqJunk, ReqCutE, ReqCutF, ReqDecl, ReqOut }

\* Pass-through requests for images at and just over the payload limit.
ReqFit  == Request("b", "u/g.png", NoEdits, Absent, "fit", Absent)
ReqOver == Request("b", "u/h.png", NoEdits, Absent, "over", Absent)

\* Two requests for different buckets and different source images: the
\* strings "c5" and "as" have the same hash (31 * 99 + 53 = 31 * 97 + 115).
ReqC5 == Request("c5", "u/a.png", ResizeOnly, "webp", "pngA", Absent)
ReqAs == Request("as", "u/a.png", ResizeOnly, "webp", "jpgB", Absent)

CollidingRequests == { ReqC5, ReqAs }

\* Two requests for the same bucket, key, output format and source image whose
\* edits objects hold the same properties, inserted in opposite orders.
ReqRG == Request("b", "u/a.png",
                 Edits(<< Edit("resize", "{\"width\":100}", TRUE),
                          Edit("grayscale", "true", TRUE) >>),
                 "webp", "pngA", Absent)
ReqGR == Request("b", "u/a.png",
                 Edits(<< Edit("grayscale", "true", TRUE),
                          Edit("resize", "{\"width\":100}", TRUE) >>),
                 "webp", "pngA", Absent)

ReorderedRequests == { ReqRG, ReqGR }

\* The requests ImageRequest.setup hands on in the model.
HandlerRequests == { ReqA, ReqA3, ReqFit, ReqOver }

(***************************************************************************)
(* The upload-notification batch: records, variants, synthetic requests    *)
(***************************************************************************)

IMAGE_FORMATS == { ".jpg", ".jpeg", ".png", ".gif", ".webp", ".tiff", ".svg" }

\* key.startsWith(prefix)
StartsWith(s, prefix) ==
  Len(s) >= Len(prefix) /\ SubSeq(s, 1, Len(prefix)) = prefix

RECURSIVE IncludesFrom(_, _, _)
IncludesFrom(s, sub, i) ==
  IF i + Len(sub) - 1 > Len(s) THEN FALSE
  ELSE IF SubSeq(s, i, i + Len(sub) - 1) = sub THEN TRUE
  ELSE IncludesFrom(s, sub, i + 1)

\* String.prototype.includes
Includes(s, sub) == IncludesFrom(s, sub, 1)

\* key.substring(key.lastIndexOf('.')): the whole key when it has no dot (the
\* keys of the model are lower-case, so toLowerCase leaves them as they are)
FileExtension(key) ==
  LET dot == LastIndexOf(key, ".", Len(key))
  IN  IF dot = 0 THEN key ELSE SubSeq(key, dot, Len(key))

\* key.split('/').pop().split('.'), the last part popped, the rest joined
FileName(key) ==
  LET seg == LastSegment(key)
      dot == LastIndexOf(seg, ".", Len(seg))
  IN  IF dot = 0 THEN "" ELSE SubSeq(seg, 1, dot - 1)

\* getContentTypeFromExtension
ContentTypeFromExtension(ext) ==
  CASE ext \in { ".jpg", ".jpeg" } -> "image/jpeg"
    [] ext = ".png"  -> "image/png"
    [] ext = ".gif"  -> "image/gif"
    [] ext = ".webp" -> "image/webp"
    [] ext = ".tiff" -> "image/tiff"
    [] ext = ".svg"  -> "image/svg+xml"
    [] OTHER -> "application/octet-stream"

\* The objects of the source bucket: the image and the ContentType S3 holds.
SourceObjects ==
  ( "uploads/a.png" :> [image |-> "pngA", ContentType |-> "image/png"]
 @@ "uploads/c.png" :> [image |-> "cut",  ContentType |-> Absent]
 @@ "other/b.jpg"   :> [image |-> "jpgB", ContentType |-> "image/jpeg"]
 @@ "uploads/n.txt" :> [image |-> "junk", ContentType |-> "text/plain"] )

\* A record of event.Records: its object key as decodeURIComponent gives it;
\* wellFormed is FALSE for a record whose key cannot be read (no s3 property,
\* a malformed percent sequence): reading it throws.
Record(key, wellFormed) == [key |-> key, wellFormed |-> wellFormed]

\* The transformations of the first and of the second variant loop.
Transform(width, height, suffix, fit, quality, watermark) ==
  [width |-> width, height |-> height, suffix |-> suffix, fit |-> fit,
   quality |-> quality, watermark |-> watermark]

FirstTransformations == << "thumb", "medium", "large" >>

StandardTransformations ==
  << Transform(100, 100, "thumb", Absent, 80, FALSE),
     Transform(500, 500, "medium", Absent, 85, FALSE),
     Transform(1024, 1024, "large", Absent, 90, FALSE),
     Transform(1920, 1080, "banner", "inside", 90, FALSE) >>

\* transformations.push({ ..., suffix: 'watermarked', ... }) if ENABLE_WATERMARK
Transformations(watermarkEnabled) ==
  IF watermarkEnabled
    THEN Append(StandardTransformations,
                Transform(2048, 2048, "watermarked", "inside", 95, TRUE))
    ELSE StandardTransformations

\* getOutputFormat (no transformation of the list names an outputFormat)
getOutputFormat(contentType, transform) ==
  IF transform.suffix = "thumb" THEN "webp"
  ELSE IF Includes(contentType, "jpeg") \/ Includes(contentType, "jpg") THEN "jpeg"
  ELSE IF Includes(contentType, "png") THEN "png"
  ELSE IF Includes(contentType, "webp") THEN "webp"
  ELSE IF Includes(contentType, "gif") THEN "gif"
  ELSE "jpeg"

\* imageObject.ContentType || getContentTypeFromExtension(fileExtension)
BatchContentType(key) ==
  IF SourceObjects[key].ContentType # Absent
    THEN SourceObjects[key].ContentType
    ELSE ContentTypeFromExtension(FileExtension(key))

\* The edits of the requestInfo built for one transformation, in the order the
\* properties are set (the watermark text is "wm").
SyntheticEdits(transform, outputFormat) ==
  LET fit == IF transform.fit # Absent THEN transform.fit ELSE "cover"
      quality == "{\"quality\":" \o ToString(transform.quality) \o "}"
  IN Edits(
       << Edit("resize",
               "{\"width\":" \o ToString(transform.width) \o ",\"height\":"
                 \o ToString(transform.height) \o ",\"fit\":\"" \o fit \o "\"}", TRUE),
          Edit("toFormat", "\"" \o outputFormat \o "\"", TRUE),
          Edit("flatten",
               IF outputFormat = "jpeg" THEN "{\"background\":\"#ffffff\"}" ELSE Absent,
               outputFormat = "jpeg"),
          Edit("compress", "true", TRUE),
          Edit("withMetadata", "false", FALSE) >>
       \o (IF transform.watermark
             THEN << Edit("watermark",
                          "{\"text\":\"wm\",\"opacity\":0.5,\"position\":\"bottom-right\"}",
                          TRUE) >>
             ELSE << >>)
       \o (IF outputFormat \in { "jpeg", "jpg" } THEN << Edit("jpeg", quality, TRUE) >>
           ELSE IF outputFormat = "png" THEN << Edit("png", quality, TRUE) >>
           ELSE IF outputFormat = "webp" THEN << Edit("webp", quality, TRUE) >>
           ELSE << >>))

\* imageRequest of the try block's loop: an ImageRequest made with the
\* options object as its s3Client; process() finds no originalImage, no edits
\* and no outputFormat on it.
FirstLoopRequest(key, suffix) == Request("src", key, NoEdits, Absent, Absent, Absent)

\* requestInfo: the request handed to process() for one transformation.  Its
\* content type is the lower-case property contentType, which process() does
\* not read, so the request declares no ContentType.
SyntheticRequest(key, transform) ==
  LET outputFormat == getOutputFormat(BatchContentType(key), transform)
  IN  Request("src", key, SyntheticEdits(transform, outputFormat), outputFormat,
              SourceObjects[key].image, Absent)

\* `processed/${fileName}-${transform.suffix}.${outputFormat}`
OutputKey(key, transform) ==
  "processed/" \o FileName(key) \o "-" \o transform.suffix \o "."
    \o getOutputFormat(BatchContentType(key), transform)

BatchRequests ==
  { SyntheticRequest(key, Transformations(TRUE)[i]) :
      key \in { "uploads/a.png", "uploads/c.png" }, i \in 1..5 }

\* Every request of the model with its image id, computed once.
AllRequests ==
  Requests \cup HandlerRequests \cup BatchRequests \cup CollidingRequests
    \cup ReorderedRequests

ImageIdOf == [r \in AllRequests |-> generateImageId(r)]

ImageIds == { ImageIdOf[r] : r \in AllRequests }

(***************************************************************************)
(* The image engine (Sharp), as far as the handler drives it               *)
(***************************************************************************)

\* A buffer: the source it derives from, the engine operations applied and
\* the encoding ("orig": as in the source).
Buffer(src, ops, enc) == [src |-> src, ops |-> ops, enc |-> enc]

\* Buffer.isBuffer(originalImage) ? originalImage : Buffer.from(originalImage)
SourceBuffer(r) == Buffer(r.originalImage, << >>, "orig")

\* buffer.length
BufLen(b) == Image(b.src).len + Len(b.ops) + (IF b.enc = "orig" THEN 0 ELSE 1)

Op(name, edits, k) == << name, EditOf(edits, k).v >>

\* Object.values(edits.rgb).some(value => value !== 0)
RgbSomeNonZero(edits) ==
  EditOf(edits, "rgb").v \notin { "{}", "{\"r\":0,\"g\":0,\"b\":0}" }

\* The first of the per-format option blocks that is present.
FormatOptionOps(edits) ==
  IF Truthy(edits, "jpeg") THEN << Op("jpeg", edits, "jpeg") >>
  ELSE IF Truthy(edits, "png") THEN << Op("png", edits, "png") >>
  ELSE IF Truthy(edits, "webp") THEN << Op("webp", edits, "webp") >>
  ELSE IF Truthy(edits, "tiff") THEN << Op("tiff", edits, "tiff") >>
  ELSE IF Truthy(edits, "gif") THEN << Op("gif", edits, "gif") >>
  ELSE IF Truthy(edits, "avif") THEN << Op("avif", edits, "avif") >>
  ELSE << >>

\* Every property of the edits object as an operation, in insertion order.
EditOps_InsertionOrder(edits) ==
  [i \in DOMAIN edits.entries |-> << edits.entries[i].k, edits.entries[i].v >>]

\* The engine operations applyEdits performs, in the order it performs them.
EditOps(edits) ==
     (IF Truthy(edits, "resize") THEN << Op("resize", edits, "resize") >> ELSE << >>)
  \o (IF Truthy(edits, "grayscale") THEN << << "grayscale", "" >> >> ELSE << >>)
  \o (IF Truthy(edits, "flip") THEN << << "flip", "" >> >> ELSE << >>)
  \o (IF Truthy(edits, "flop") THEN << << "flop", "" >> >> ELSE << >>)
  \o (IF Defined(edits, "rotate") THEN << Op("rotate", edits, "rotate") >> ELSE << >>)
  \o (IF Truthy(edits, "background") THEN << Op("flatten", edits, "background") >> ELSE << >>)
  \o (IF Truthy(edits, "flatten") THEN << Op("flatten", edits, "flatten") >> ELSE << >>)
  \o (IF Truthy(edits, "rgb") /\ RgbSomeNonZero(edits)
        THEN << Op("modulate", edits, "rgb") >> ELSE << >>)
  \o (IF Truthy(edits, "normalize") THEN << << "normalize", "" >> >> ELSE << >>)
  \o (IF Truthy(edits, "threshold") THEN << Op("threshold", edits, "threshold") >> ELSE << >>)
  \o (IF Truthy(edits, "sharpen") THEN << Op("sharpen", edits, "sharpen") >> ELSE << >>)
  \o (IF Truthy(edits, "blur") THEN << Op("blur", edits, "blur") >> ELSE << >>)
  \o (IF Truthy(edits, "extend") THEN << Op("extend", edits, "extend") >> ELSE << >>)
  \o (IF Truthy(edits, "watermark") THEN << Op("composite", edits, "watermark") >> ELSE << >>)
  \o FormatOptionOps(edits)

\* Whether the engine can produce output from this buffer (toBuffer succeeds).
EngineCanRender(b) == Image(b.src).decodes

\* applyEdits: the edited buffer (when toBuffer succeeds)
applyEdits(b, edits) == Buffer(b.src, b.ops \o EditOps(edits), b.enc)

\* applyFormatting: the re-encoded buffer (when toBuffer succeeds)
applyFormatting(b, outputFormat) ==
  Buffer(b.src, Append(b.ops, << "toFormat", outputFormat >>), outputFormat)

(***************************************************************************)
(* State                                                                   *)
(***************************************************************************)

\* Bounds of the model.
MaxCalls == 3
MaxFaults == 2

\* The invocations of process() that may be in progress at once.
Procs == { "p1", "p2" }

VARIABLES
  cacheEnabled, \* process.env.ENABLE_CACHE === 'Yes'
  store,        \* the output bucket: image id -> stored object
  meta,         \* the metadata table: image id -> item
  pc,           \* where each invocation of process() stands
  req,          \* its imageRequestInfo
  loc,          \* its local variables
  out,          \* what it returned or threw
  log,          \* what it did so far, in order
  calls,        \* invocations started so far
  faults        \* storage / database calls that failed so far

procVars == << cacheEnabled, store, meta, pc, req, loc, out, log, calls, faults >>

VARIABLES
  env,           \* the handler's configuration (process.env)
  hpc,           \* where the invocation of handler() stands
  rpc,           \* where its call of handleRequest() stands
  rerr,          \* the error handleRequest caught
  response,      \* what handleRequest resolved with
  finalResponse, \* what Promise.race resolved with
  timer,         \* the timeout of createS3ObjectLambdaTimeout
  remaining,     \* context.getRemainingTimeInMillis() when the timer was made
  clock,         \* milliseconds passed since then
  hasContext,    \* event.getObjectContext, when "getObjectContext" in event
  written,       \* the writeGetObjectResponse calls made, in order
  hresult,       \* what handler() returned or threw
  fetched        \* how the getObject of the fallback image went

handlerVars == << env, hpc, rpc, rerr, response, finalResponse, timer, remaining,
                  clock, hasContext, written, hresult, fetched >>

VARIABLES
  benv,      \* what the S3-event invocation finds: OUTPUT_BUCKET, ENABLE_WATERMARK
  bpc,       \* where handleS3Event stands
  records,   \* event.Records
  ri,        \* the record the outer loop is at
  vi,        \* the transformation the inner loop is at
  results,   \* processingResults of the record
  attempts,  \* the transformations tried for the record, and how each went
  batches,   \* per record whose transformations are through: attempts, results
  outputs,   \* the keys put in OUTPUT_BUCKET by handleS3Event
  documents, \* the items put in IMAGE_METADATA_TABLE by handleS3Event, each with
             \* the record it was made for (every record has its own id)
  bres,      \* how the invocation ended: "none", "returned", "raised"
  fetches    \* the s3Client.getObject calls handleS3Event made for the records

batchVars == << benv, bpc, records, ri, vi, results, attempts, batches, outputs,
                documents, bres, fetches >>

VARIABLES
  arg,  \* the arguments of the function called on its own, as given
  ret   \* what the call returned or threw

callVars == << arg, ret >>

\* No function was called on its own yet.
CallIdle == arg = << >> /\ ret = << >>

\* The state outside ImageHandler.process that its steps leave alone.
hostVars == << handlerVars, batchVars, callVars >>

NoObject == [present |-> FALSE]
Object(body) == [present |-> TRUE, body |-> body]

NoSize == -1
NoRecord == [present |-> FALSE]

\* The item storeImageMetadata puts: { imageId, createdAt, ...metadata }.  A put
\* replaces the whole item, so the item has no accessCount.
Item(status, hasError, format, size) ==
  [present |-> TRUE, processingStatus |-> status, processingError |-> hasError,
   format |-> format, size |-> size, accessCount |-> 0]

\* (existingMetadata.accessCount || 0)
AccessCount(id) == IF meta[id].present THEN meta[id].accessCount ELSE 0

NoBuffer == Buffer("", << >>, "")
NoResult == [kind |-> "none"]
Returned(body) == [kind |-> "ok", body |-> body]
\* new ImageHandlerError(status, code, message)
Thrown(status, code) == [kind |-> "error", status |-> status, code |-> code]

\* The locals of a call; storeAtCall and metaAtCall record the two stores as
\* they were when the call was made, prevReq and prevOut the request and the
\* result of the call before it.
NoLocals ==
  [imageId |-> "", count |-> 0, modified |-> NoBuffer, formatted |-> NoBuffer,
   storeAtCall |-> << >>, metaAtCall |-> << >>, prevReq |-> << >>,
   prevOut |-> NoResult]

\* const imageId = this.generateImageId(imageRequestInfo)
IdOf(p) == loc[p].imageId

ProcInit ==
  /\ cacheEnabled \in BOOLEAN
  /\ store = [id \in ImageIds |-> NoObject]
  /\ meta = [id \in ImageIds |-> NoRecord]
  /\ pc = [p \in Procs |-> "idle"]
  /\ req = [p \in Procs |-> ReqA]
  /\ loc = [p \in Procs |-> NoLocals]
  /\ out = [p \in Procs |-> NoResult]
  /\ log = [p \in Procs |-> << >>]
  /\ calls = 0
  /\ faults = 0

CanFail == faults < MaxFaults

Goto(p, label) == pc' = [pc EXCEPT ![p] = label]
Note(p, event) == log' = [log EXCEPT ![p] = Append(@, event)]
Finish(p, result) == /\ pc' = [pc EXCEPT ![p] = "done"]
                     /\ out' = [out EXCEPT ![p] = result]
Fault == faults' = faults + 1

(***************************************************************************)
(* ImageHandler.process, step by step (one action per awaited call)        *)
(***************************************************************************)

\* process(imageRequestInfo) is called: imageId = generateImageId(...)
Call(p, r) ==
  /\ pc[p] \in { "idle", "done" }
  /\ calls' = calls + 1
  /\ req' = [req EXCEPT ![p] = r]
  /\ loc' = [loc EXCEPT ![p] =
               [NoLocals EXCEPT !.imageId = ImageIdOf[r],
                                !.storeAtCall = store, !.metaAtCall = meta,
                                !.prevReq = req[p], !.prevOut = out[p]]]
  /\ out' = [out EXCEPT ![p] = NoResult]
  /\ log' = [log EXCEPT ![p] = << >>]
  /\ Goto(p, "head")
  /\ UNCHANGED << cacheEnabled, store, meta, faults >>

\* A call of process() from outside the handler (a request arrives).
Invoke(p, r) ==
  /\ calls < MaxCalls
  /\ Call(p, r)
  /\ UNCHANGED hostVars

\* doesProcessedImageExist: headObject on the output bucket.  NotFound gives
\* false; any other error is thrown, caught by process() and logged.
HeadObject(p) ==
  /\ pc[p] = "head"
  /\ \/ /\ store[IdOf(p)].present
        /\ Note(p, "check:hit")
        /\ Goto(p, "statsGet")
        /\ UNCHANGED faults
     \/ /\ ~store[IdOf(p)].present
        /\ Note(p, "check:miss")
        /\ Goto(p, "probe")
        /\ UNCHANGED faults
     \/ /\ CanFail
        /\ Fault
        /\ Note(p, "check:failed")
        /\ Goto(p, "probe")
  /\ UNCHANGED << hostVars, cacheEnabled, store, meta, req, loc, out, calls >>

\* updateAccessStats, first half: dbOperations.getImageMetadata(key)
StatsGet(p) ==
  /\ pc[p] = "statsGet"
  /\ \/ /\ meta[IdOf(p)].present
        /\ loc' = [loc EXCEPT ![p].count = meta[IdOf(p)].accessCount]
        /\ Note(p, "stats:read")
        /\ Goto(p, "statsUpdate")
        /\ UNCHANGED faults
     \/ /\ ~meta[IdOf(p)].present
        /\ Note(p, "stats:norecord")
        /\ Goto(p, "fetch")
        /\ UNCHANGED << loc, faults >>
     \/ /\ CanFail
        /\ Fault
        /\ Note(p, "stats:failed")
        /\ Goto(p, "fetch")
        /\ UNCHANGED loc
  /\ UNCHANGED << hostVars, cacheEnabled, store, meta, req, out, calls >>

\* The count written back as it was read: the increment left out.
NextAccessCount_NoIncrement(read) == read

\* The accessCount updateAccessStats writes from the count it read.
NextAccessCount(read) == read + 1

\* updateAccessStats, second half: dbOperations.updateImageMetadata(key,
\* { accessCount, lastAccessed }), an update that sets the named attributes
\* of the item (and creates the item when there is none).
StatsUpdate(p) ==
  /\ pc[p] = "statsUpdate"
  /\ \/ /\ meta' = [meta EXCEPT ![IdOf(p)] =
                      IF @.present
                        THEN [@ EXCEPT !.accessCount = NextAccessCount(loc[p].count)]
                        ELSE [Item(Absent, FALSE, Absent, NoSize)
                                EXCEPT !.accessCount = NextAccessCount(loc[p].count)]]
        /\ Note(p, "stats:updated")
        /\ UNCHANGED faults
     \/ /\ CanFail
        /\ Fault
        /\ Note(p, "stats:failed")
        /\ UNCHANGED meta
  /\ Goto(p, "fetch")
  /\ UNCHANGED << hostVars, cacheEnabled, store, req, loc, out, calls >>

\* s3Client.getObject on the output bucket; return cachedImage.Body
FetchCached(p) ==
  /\ pc[p] = "fetch"
  /\ \/ /\ store[IdOf(p)].present
        /\ Note(p, "fetch:ok")
        /\ Finish(p, Returned(store[IdOf(p)].body))
        /\ UNCHANGED faults
     \/ /\ CanFail
        /\ Fault
        /\ Note(p, "fetch:failed")
        /\ Goto(p, "probe")
        /\ UNCHANGED out
  /\ UNCHANGED << hostVars, cacheEnabled, store, meta, req, loc, calls >>

\* contentType: the declared ContentType property when the request has one,
\* else the format Sharp(imageBuffer).metadata() reports.
ContentTypeOf(r) ==
  IF r.ContentType # Absent THEN r.ContentType ELSE Image(r.originalImage).format

\* !("ContentType" in imageRequestInfo): Sharp(imageBuffer).metadata() is called
MetadataProbed(r) == r.ContentType = Absent

\* Sharp(imageBuffer).metadata() throws
ProbeThrows(r) == r.ContentType = Absent /\ Image(r.originalImage).format = "none"

\* The format check left out: every source passes.
SourceSupported_Any(r) == TRUE

\* formats.includes(contentType)
SourceSupported(r) == ContentTypeOf(r) \in ImageFormatTypes

\* outputFormat && formats.includes(outputFormat)
WantsFormat(r) == r.outputFormat # Absent /\ r.outputFormat \in ImageFormatTypes

\* The store entered straight after editing, before the output is formatted.
AfterModified_StoreUnformatted(p, modified) ==
  IF WantsFormat(req[p])
    THEN /\ pc' = [pc EXCEPT ![p] = "upload"]
         /\ UNCHANGED out
    ELSE Finish(p, Returned(modified))

\* The formatting entered whether or not an output format is asked for.
AfterModified_AlwaysFormats(p, modified) ==
  /\ Goto(p, "format")
  /\ UNCHANGED out

\* What follows once modifiedImage is set: formatting, or the return of
\* modifiedImage.
AfterModified(p, modified) ==
  IF WantsFormat(req[p])
    THEN /\ Goto(p, "format")
         /\ UNCHANGED out
    ELSE Finish(p, Returned(modified))

\* The content type is determined and checked against the supported formats;
\* without edits the source buffer is the modified image.
Probe(p) ==
  /\ pc[p] = "probe"
  /\ IF ProbeThrows(req[p])
       THEN /\ Note(p, "probe:failed")
            /\ Finish(p, Thrown(StatusInternalServerError, "ImageProcessingError"))
            /\ UNCHANGED loc
       ELSE IF ~SourceSupported(req[p])
       THEN /\ Note(p, "unsupported")
            /\ Finish(p, Thrown(StatusBadRequest, "ImageFormatNotSupported"))
            /\ UNCHANGED loc
       ELSE IF req[p].edits.given
       THEN /\ Note(p, "supported")
            /\ Goto(p, "edit")
            /\ UNCHANGED << loc, out >>
       ELSE /\ Note(p, "supported")
            /\ loc' = [loc EXCEPT ![p].modified = SourceBuffer(req[p])]
            /\ AfterModified(p, SourceBuffer(req[p]))
  /\ UNCHANGED << hostVars, cacheEnabled, store, meta, req, calls, faults >>

\* The error of applyEdits with the code of the metadata probe's error.
ImageEditsError_ProbeCode == Thrown(StatusInternalServerError, "ImageProcessingError")

\* What applyEdits throws when the engine fails.
ImageEditsError == Thrown(StatusInternalServerError, "ImageEditsError")

\* modifiedImage = await this.applyEdits(imageBuffer, edits)
ApplyEdits(p) ==
  /\ pc[p] = "edit"
  /\ Note(p, "edit")
  /\ IF EngineCanRender(SourceBuffer(req[p]))
       THEN /\ loc' = [loc EXCEPT ![p].modified =
                         applyEdits(SourceBuffer(req[p]), req[p].edits)]
            /\ AfterModified(p, applyEdits(SourceBuffer(req[p]), req[p].edits))
       ELSE /\ Finish(p, ImageEditsError)
            /\ UNCHANGED loc
  /\ UNCHANGED << hostVars, cacheEnabled, store, meta, req, calls, faults >>

\* The formatted image returned without the store.
AfterFormatted_NoStore(p, formatted) == Finish(p, Returned(formatted))

\* What follows a successful applyFormatting: the store when caching is
\* enabled, else the return of the formatted image.
AfterFormatted(p, formatted) ==
  IF cacheEnabled
    THEN /\ Goto(p, "upload")
         /\ UNCHANGED out
    ELSE Finish(p, Returned(formatted))

\* formatted = await this.applyFormatting(modifiedImage, contentType, outputFormat)
ApplyFormatting(p) ==
  /\ pc[p] = "format"
  /\ Note(p, "format")
  /\ IF EngineCanRender(loc[p].modified)
       THEN /\ loc' = [loc EXCEPT ![p].formatted =
                         applyFormatting(loc[p].modified, req[p].outputFormat)]
            /\ AfterFormatted(p, applyFormatting(loc[p].modified, req[p].outputFormat))
       ELSE /\ Finish(p, Thrown(StatusInternalServerError, "ImageFormatError"))
            /\ UNCHANGED loc
  /\ UNCHANGED << hostVars, cacheEnabled, store, meta, req, calls, faults >>

\* storeProcessedImage, first call: s3Client.upload of the formatted image
Upload(p) ==
  /\ pc[p] = "upload"
  /\ \/ /\ store' = [store EXCEPT ![IdOf(p)] = Object(loc[p].formatted)]
        /\ Note(p, "upload:ok")
        /\ Goto(p, "putMeta")
        /\ UNCHANGED faults
     \/ /\ CanFail
        /\ Fault
        /\ Note(p, "upload:failed")
        /\ Goto(p, "putFailed")
        /\ UNCHANGED store
  /\ UNCHANGED << hostVars, cacheEnabled, meta, req, loc, out, calls >>

\* The metadata process() hands to storeProcessedImage: format, size and
\* processingStatus 'processed' (with the dimensions, content type and edits).
PassedMetadata(p) ==
  [format |-> req[p].outputFormat, size |-> BufLen(loc[p].formatted),
   processingStatus |-> "processed"]

\* { ..., processingStatus: 'processed', ...metadata }
ProcessedItem(m) == Item(m.processingStatus, FALSE, m.format, m.size)

\* { ..., processingStatus: 'failed', processingError, ...metadata }: the
\* metadata is spread last, so its processingStatus is the one that stays.
FailedItem(m) == Item(m.processingStatus, TRUE, m.format, m.size)

\* storeProcessedImage, second call: dbOperations.storeImageMetadata; then
\* process() returns the formatted image.
PutMeta(p) ==
  /\ pc[p] = "putMeta"
  /\ \/ /\ meta' = [meta EXCEPT ![IdOf(p)] = ProcessedItem(PassedMetadata(p))]
        /\ Note(p, "meta:ok")
        /\ Finish(p, Returned(loc[p].formatted))
        /\ UNCHANGED faults
     \/ /\ CanFail
        /\ Fault
        /\ Note(p, "meta:failed")
        /\ Goto(p, "putFailed")
        /\ UNCHANGED << meta, out >>
  /\ UNCHANGED << hostVars, cacheEnabled, store, req, loc, calls >>

\* The storage error not caught next to the store: it reaches the catch around
\* the formatting and fails the call.
PutFailed_Propagates(p) ==
  /\ pc[p] = "putFailed"
  /\ \/ /\ meta' = [meta EXCEPT ![IdOf(p)] = FailedItem(PassedMetadata(p))]
        /\ Note(p, "failmeta:ok")
        /\ UNCHANGED faults
     \/ /\ CanFail
        /\ Fault
        /\ Note(p, "failmeta:failed")
        /\ UNCHANGED meta
  /\ Finish(p, Thrown(StatusInternalServerError, "ImageFormatError"))
  /\ UNCHANGED << hostVars, cacheEnabled, store, req, loc, calls >>

\* storeProcessedImage's catch: the error record is stored (its own failure
\* is logged), the error is rethrown; process() logs it and returns the
\* formatted image.
PutFailed(p) ==
  /\ pc[p] = "putFailed"
  /\ \/ /\ meta' = [meta EXCEPT ![IdOf(p)] = FailedItem(PassedMetadata(p))]
        /\ Note(p, "failmeta:ok")
        /\ UNCHANGED faults
     \/ /\ CanFail
        /\ Fault
        /\ Note(p, "failmeta:failed")
        /\ UNCHANGED meta
  /\ Finish(p, Returned(loc[p].formatted))
  /\ UNCHANGED << hostVars, cacheEnabled, store, req, loc, calls >>

(***************************************************************************)
(* handler / handleRequest: the two delivery modes                         *)
(***************************************************************************)

LAMBDA_PAYLOAD_LIMIT == 6 * 1024 * 1024

\* Bounds of the model: how far the clock runs, in milliseconds, and how many
\* requests the handler passes on to process().
MaxClock == 1000
MaxRequests == 2

\* The length of buffer.toString("base64") for a buffer of n bytes.
Base64Len(n) == 4 * ((n + 2) \div 3)

\* An error that is no ImageHandlerError: it has no status.
PlainError == [kind |-> "error", status |-> 0, code |-> "Error"]

\* The errors ImageRequest.setup raises in the model.
\* Another one, of another class and with another message.
PlainTypeError == [kind |-> "error", status |-> 0, code |-> "TypeError"]

SetupErrors == { Thrown(StatusBadRequest, "RequestTypeError"), PlainError, PlainTypeError }

NoResponse == [statusCode |-> 0]
NoError == [kind |-> "none"]

\* Response bodies: an image (the processed one or the fallback image), as
\* base64 text or as bytes, or the JSON text of an error.
ImageBody(kind, b, encoding) == [kind |-> kind, buffer |-> b, encoding |-> encoding]
ErrorBody(status, code) == [kind |-> "error", status |-> status, code |-> code]

\* body.length
BodyLen(body) ==
  IF body.kind = "error"
    THEN Len("{\"status\":" \o ToString(body.status) \o ",\"code\":\"" \o body.code \o "\"}")
  ELSE IF body.encoding = "base64" THEN Base64Len(BufLen(body.buffer))
  ELSE BufLen(body.buffer)

Response(statusCode, isBase64Encoded, body) ==
  [statusCode |-> statusCode, isBase64Encoded |-> isBase64Encoded, body |-> body]

\* The error response with the error's own code in the body of an error that
\* has no status.
ErrorResponse_OwnCode(error) ==
  Response(IF error.status # 0 THEN error.status ELSE StatusInternalServerError, FALSE,
           ErrorBody(IF error.status # 0 THEN error.status ELSE StatusInternalServerError,
                     error.code))

\* getErrorResponse, with the headers of an error
ErrorResponse(error) ==
  IF error.status # 0
    THEN Response(error.status, FALSE, ErrorBody(error.status, error.code))
    ELSE Response(StatusInternalServerError, FALSE,
                  ErrorBody(StatusInternalServerError, "InternalError"))

\* What the timer resolves timeoutPromise with.
TimeoutResponse == ErrorResponse(Thrown(StatusTimeout, "TimeoutException"))

\* ENABLE_S3_OBJECT_LAMBDA === "Yes" ? bytes : base64 text
BodyEncoding == IF env.objectLambda THEN "binary" ELSE "base64"

\* The delay given to setTimeout with no floor at 0.
TimerDelay_NoFloor(remainingMillis) == remainingMillis - 1000

\* Math.max(context.getRemainingTimeInMillis() - 1000, 0)
TimerDelay(remainingMillis) ==
  IF remainingMillis - 1000 > 0 THEN remainingMillis - 1000 ELSE 0

\* The length of the raw bytes tested in place of the base64 text.
TooLarge_RawBytes(b) == BufLen(b) > LAMBDA_PAYLOAD_LIMIT

\* processedRequest.length > LAMBDA_PAYLOAD_LIMIT, for the base64 text
TooLarge(b) == Base64Len(BufLen(b)) > LAMBDA_PAYLOAD_LIMIT

NoTimer == [state |-> "none", delay |-> 0]

\* An event without getObjectContext, and the getObjectContext of the events
\* that have one: outputRoute and outputToken, given by the caller.
NoContext == [present |-> FALSE]
GetObjectContext(route, token) ==
  [present |-> TRUE, outputRoute |-> route, outputToken |-> token]
GetObjectContexts ==
  { GetObjectContext("route-1", "token-1"), GetObjectContext("route-2", "token-2") }
EventContexts == { NoContext } \cup GetObjectContexts

\* The values context.getRemainingTimeInMillis() takes in the model.
RemainingTimes == { 400, 2000 }

\* The invocations of the model, each an event's context and the time that
\* remains.
HandlerEvents == EventContexts \X RemainingTimes

\* The call of clearTimeout left out: the timer stays as it is.
clearTimeout_Skipped(t) == t

\* clearTimeout(timeoutId): a pending timer is cancelled; one that has fired
\* stays as it is.
clearTimeout(t) == IF t.state = "armed" THEN [t EXCEPT !.state = "cleared"] ELSE t

HandlerIdle ==
  /\ env \in [objectLambda : BOOLEAN, fallback : BOOLEAN,
              fallbackImage : { "fbSmall", "fbHuge" }]
  /\ ~env.fallback => env.fallbackImage = "fbSmall"
  /\ hpc = "idle"
  /\ rpc = "idle"
  /\ rerr = NoError
  /\ response = NoResponse
  /\ finalResponse = NoResponse
  /\ timer = NoTimer
  /\ remaining = 0
  /\ clock = 0
  /\ hasContext = NoContext
  /\ written = << >>
  /\ hresult = [kind |-> "none"]
  /\ fetched = "none"

\* handler(event, context) is invoked with a request event: handleRequest is
\* started (it runs up to its first await) and, in write-back mode, the timer
\* is made.  Each invocation has its own ImageHandler and ImageRequest: nothing
\* of the invocation before is left.
HandlerStart(ctx, rem) ==
  /\ hpc \in { "idle", "done" }
  /\ rpc \in { "idle", "resolved" }
  /\ calls < MaxRequests
  /\ rpc' = "setup"
  /\ rerr' = NoError
  /\ response' = NoResponse
  /\ finalResponse' = NoResponse
  /\ written' = << >>
  /\ hresult' = [kind |-> "none"]
  /\ fetched' = "none"
  /\ clock' = 0
  /\ pc' = [pc EXCEPT !["p1"] = "idle"]
  /\ out' = [out EXCEPT !["p1"] = NoResult]
  /\ req' = [req EXCEPT !["p1"] = ReqA]
  /\ loc' = [loc EXCEPT !["p1"] = NoLocals]
  /\ log' = [log EXCEPT !["p1"] = << >>]
  /\ IF env.objectLambda
       THEN /\ hasContext' = ctx
            /\ remaining' = rem
            /\ timer' = [state |-> "armed", delay |-> TimerDelay(rem)]
            /\ hpc' = "race"
       ELSE /\ hasContext' = NoContext
            /\ remaining' = 0
            /\ timer' = NoTimer
            /\ hpc' = "proxy"
  /\ UNCHANGED << env, cacheEnabled, store, meta, calls, faults >>
  /\ UNCHANGED << batchVars, callVars >>

\* handleRequest resolves.  In direct-proxy mode its result is the handler's;
\* in write-back mode Promise.race takes it when the timer has not fired, and
\* the handler goes on at once: clearTimeout, then the response.
Resolve(resp) ==
  /\ rpc' = "resolved"
  /\ response' = resp
  /\ IF hpc = "proxy"
       THEN /\ hpc' = "done"
            /\ hresult' = [kind |-> "returned", value |-> resp]
            /\ UNCHANGED << finalResponse, timer >>
     ELSE IF hpc = "race"
       THEN /\ finalResponse' = resp
            /\ timer' = clearTimeout(timer)
            /\ hpc' = "respond"
            /\ UNCHANGED hresult
     ELSE UNCHANGED << hpc, hresult, finalResponse, timer >>

\* The catch without the fallback image: the error response at once.
Catch_NoFallback(error) ==
  /\ rerr' = error
  /\ Resolve(ErrorResponse(error))

\* handleRequest's catch: the fallback image when it is configured, else the
\* error response.
Catch(error) ==
  /\ rerr' = error
  /\ IF env.fallback
       THEN /\ rpc' = "fallback"
            /\ UNCHANGED << response, hpc, hresult, finalResponse, timer >>
       ELSE Resolve(ErrorResponse(error))

\* imageRequest.setup(event), then the call of imageHandler.process
RequestSetup ==
  /\ rpc = "setup"
  /\ \/ /\ \E r \in HandlerRequests : Call("p1", r)
        /\ rpc' = "process"
        /\ UNCHANGED << rerr, response, hpc, hresult, finalResponse, timer >>
     \/ /\ \E e \in SetupErrors : Catch(e)
        /\ UNCHANGED procVars
  /\ UNCHANGED << env, fetched, remaining, clock, hasContext, written >>
  /\ UNCHANGED << batchVars, callVars >>

\* process() has returned or thrown: the base64 text and its length check in
\* direct-proxy mode, then the response.
ProcessReturns ==
  /\ rpc = "process"
  /\ pc["p1"] = "done"
  /\ IF out["p1"].kind = "error"
       THEN Catch(out["p1"])
     ELSE IF ~env.objectLambda /\ TooLarge(out["p1"].body)
       THEN Catch(Thrown(StatusRequestTooLong, "TooLargeImageException"))
     ELSE /\ Resolve(Response(StatusOK, TRUE,
                              ImageBody("image", out["p1"].body, BodyEncoding)))
          /\ UNCHANGED rerr
  /\ UNCHANGED << procVars, env, fetched, remaining, clock, hasContext, written >>
  /\ UNCHANGED << batchVars, callVars >>

\* handleDefaultFallbackImage answering with status 200 whatever the error.
FallbackImage_StatusOK ==
  /\ rpc = "fallback"
  /\ \/ /\ Resolve(Response(StatusOK, TRUE,
                            ImageBody("fallback", Buffer(env.fallbackImage, << >>, "orig"),
                                      BodyEncoding)))
        /\ fetched' = "ok"
        /\ UNCHANGED faults
     \/ /\ CanFail
        /\ Fault
        /\ fetched' = "failed"
        /\ Resolve(ErrorResponse(rerr))
  /\ UNCHANGED << cacheEnabled, store, meta, pc, req, loc, out, log, calls >>
  /\ UNCHANGED << env, rerr, remaining, clock, hasContext, written >>
  /\ UNCHANGED << batchVars, callVars >>

\* handleDefaultFallbackImage: the fallback image with the error's status; when
\* it cannot be fetched, the error response.
FallbackImage ==
  /\ rpc = "fallback"
  /\ \/ /\ Resolve(Response(IF rerr.status # 0 THEN rerr.status
                                              ELSE StatusInternalServerError,
                            TRUE,
                            ImageBody("fallback", Buffer(env.fallbackImage, << >>, "orig"),
                                      BodyEncoding)))
        /\ fetched' = "ok"
        /\ UNCHANGED faults
     \/ /\ CanFail
        /\ Fault
        /\ fetched' = "failed"
        /\ Resolve(ErrorResponse(rerr))
  /\ UNCHANGED << cacheEnabled, store, meta, pc, req, loc, out, log, calls >>
  /\ UNCHANGED << env, rerr, remaining, clock, hasContext, written >>
  /\ UNCHANGED << batchVars, callVars >>

\* Time passes while the handler awaits Promise.race.
Tick ==
  /\ hpc = "race"
  /\ clock < MaxClock
  /\ clock' = clock + 1000
  /\ UNCHANGED << procVars, env, fetched, hpc, rpc, rerr, response, finalResponse, timer,
                  remaining, hasContext, written, hresult >>
  /\ UNCHANGED << batchVars, callVars >>

\* The timer fires: timeoutPromise resolves and wins the race; the handler
\* goes on at once with clearTimeout.
TimerFires ==
  /\ hpc = "race"
  /\ timer.state = "armed"
  /\ clock >= timer.delay
  /\ timer' = clearTimeout([timer EXCEPT !.state = "fired"])
  /\ finalResponse' = TimeoutResponse
  /\ hpc' = "respond"
  /\ UNCHANGED << procVars, env, fetched, rpc, rerr, response, remaining, clock, hasContext,
                  written, hresult >>
  /\ UNCHANGED << batchVars, callVars >>

RECURSIVE encodeURI(_)
\* encodeURI(value) for the characters of the model's header values: a space,
\* a double quote and a percent sign are escaped, the others are kept.
encodeURI(s) ==
  IF s = "" THEN ""
  ELSE LET c == SubSeq(s, 1, 1)
       IN  (CASE c = " "  -> "%20"
              [] c = "\"" -> "%22"
              [] c = "%"  -> "%25"
              [] OTHER    -> c)
           \o encodeURI(SubSeq(s, 2, Len(s)))

RECURSIVE SpacesRestored(_)
\* .replace(/%20/g, " ")
SpacesRestored(s) ==
  IF Len(s) >= 3 /\ SubSeq(s, 1, 3) = "%20"
    THEN " " \o SpacesRestored(SubSeq(s, 4, Len(s)))
  ELSE IF s = "" THEN ""
  ELSE SubSeq(s, 1, 1) \o SpacesRestored(SubSeq(s, 2, Len(s)))

\* finalResponse.statusCode >= 500 && finalResponse.statusCode < 599
IsServerError(statusCode) == statusCode >= 500 /\ statusCode < 599

\* finalResponse.statusCode >= 400 && finalResponse.statusCode <= 499
IsClientError(statusCode) == statusCode >= 400 /\ statusCode <= 499

\* buildResponseHeaders: headers is finalResponse.headers, a function from
\* header names to values (Absent: undefined).
buildResponseHeaders(statusCode, headers) ==
  LET filtered == { n \in DOMAIN headers : headers[n] # Absent }
      encoded  == [n \in filtered |-> SpacesRestored(encodeURI(headers[n]))]
      short    == IF IsClientError(statusCode)
                    THEN ("Cache-Control" :> "max-age=10,public") @@ encoded
                    ELSE encoded
  IN  IF IsServerError(statusCode)
        THEN ("Cache-Control" :> "max-age=600,public") @@ short
        ELSE short

\* buildWriteResponseParams, for the event of the invocation
WriteParams(resp) ==
  [Body |-> resp.body, StatusCode |-> resp.statusCode,
   RequestRoute |-> hasContext.outputRoute, RequestToken |-> hasContext.outputToken]

\* The error parameters without the route and the token of the event.
WriteErrorParams_NoRoute ==
  [Body |-> ErrorBody(StatusBadRequest, "S3ObjectLambdaWriteError"),
   StatusCode |-> StatusBadRequest,
   RequestRoute |-> "", RequestToken |-> ""]

\* buildErrorResponseParams for S3ObjectLambdaWriteError, for the event of
\* the invocation
WriteErrorParams ==
  [Body |-> ErrorBody(StatusBadRequest, "S3ObjectLambdaWriteError"),
   StatusCode |-> StatusBadRequest,
   RequestRoute |-> hasContext.outputRoute, RequestToken |-> hasContext.outputToken]

\* getResponseHeaders(isError) for a request that is not from an ALB, with
\* CORS not enabled
getResponseHeaders(isError) ==
  LET headers == ( "Access-Control-Allow-Methods" :> "GET"
                @@ "Access-Control-Allow-Headers" :> "Content-Type, Authorization"
                @@ "Access-Control-Allow-Credentials" :> "true" )
  IN  IF isError THEN ("Content-Type" :> "application/json") @@ headers ELSE headers

\* The headers of a response: those of an error (getErrorResponse and the
\* timeout), of the fallback image, or of a processed image, whose request
\* names a cache control and a modification date and no expiry.
ResponseHeaders(resp) ==
  IF resp.body.kind = "error" THEN getResponseHeaders(TRUE)
  ELSE IF resp.body.kind = "fallback"
    THEN ( "Content-Type" :> "image/png" @@ "Last-Modified" :> "Thu, 05 Nov 2026"
        @@ "Cache-Control" :> "max-age=31536000,public" ) @@ getResponseHeaders(FALSE)
  ELSE ( "Content-Type" :> "image/png" @@ "Expires" :> Absent
      @@ "Last-Modified" :> "Thu, 05 Nov 2026" )
       @@ getResponseHeaders(FALSE) @@ ( "Cache-Control" :> "max-age=31536000,public" )

\* The return value for a HeadObject request, with the body as well.
HeadObjectResult_WithBody(resp) ==
  [statusCode |-> resp.statusCode,
   headers |-> ("Content-Length" :> ToString(BodyLen(resp.body)))
                 @@ buildResponseHeaders(resp.statusCode, ResponseHeaders(resp)),
   body |-> resp.body]

\* { statusCode, headers: { ...responseHeaders, "Content-Length": body.length } }
\* (the length as the header text carries it)
HeadObjectResult(resp) ==
  [statusCode |-> resp.statusCode,
   headers |-> ("Content-Length" :> ToString(BodyLen(resp.body)))
                 @@ buildResponseHeaders(resp.statusCode, ResponseHeaders(resp))]

\* No getObjectContext in the event: a HeadObject request, answered by the
\* handler's return value.
HeadResponse ==
  /\ hpc = "respond"
  /\ ~hasContext.present
  /\ hresult' = [kind |-> "returned", value |-> HeadObjectResult(finalResponse)]
  /\ hpc' = "done"
  /\ UNCHANGED << procVars, env, fetched, rpc, rerr, response, finalResponse, timer, remaining,
                  clock, hasContext, written >>
  /\ UNCHANGED << batchVars, callVars >>

\* s3Client.writeGetObjectResponse(params)
WriteResponse ==
  /\ hpc = "respond"
  /\ hasContext.present
  /\ \/ /\ written' = Append(written, [params |-> WriteParams(finalResponse), ok |-> TRUE])
        /\ hpc' = "done"
        /\ hresult' = [kind |-> "void"]
        /\ UNCHANGED faults
     \/ /\ CanFail
        /\ Fault
        /\ written' = Append(written, [params |-> WriteParams(finalResponse), ok |-> FALSE])
        /\ hpc' = "rewrite"
        /\ UNCHANGED hresult
  /\ UNCHANGED << cacheEnabled, store, meta, pc, req, loc, out, log, calls >>
  /\ UNCHANGED << env, fetched, rpc, rerr, response, finalResponse, timer, remaining, clock,
                  hasContext >>
  /\ UNCHANGED << batchVars, callVars >>

\* The second writeGetObjectResponse, with the write error; its failure is
\* the handler's.
RewriteResponse ==
  /\ hpc = "rewrite"
  /\ \/ /\ written' = Append(written, [params |-> WriteErrorParams, ok |-> TRUE])
        /\ hresult' = [kind |-> "void"]
        /\ UNCHANGED faults
     \/ /\ CanFail
        /\ Fault
        /\ written' = Append(written, [params |-> WriteErrorParams, ok |-> FALSE])
        /\ hresult' = [kind |-> "thrown"]
  /\ hpc' = "done"
  /\ UNCHANGED << cacheEnabled, store, meta, pc, req, loc, out, log, calls >>
  /\ UNCHANGED << env, fetched, rpc, rerr, response, finalResponse, timer, remaining, clock,
                  hasContext >>
  /\ UNCHANGED << batchVars, callVars >>

(***************************************************************************)
(* handler / handleS3Event: the upload-notification batch                  *)
(***************************************************************************)

\* The events of the model: event.Records, one or two records long.
Events ==
  { << Record("uploads/a.png", TRUE) >>,
    << Record("uploads/c.png", TRUE) >>,
    << Record("other/b.jpg", TRUE) >>,
    << Record("uploads/n.txt", TRUE), Record("uploads/a.png", TRUE) >>,
    << Record("uploads/a.png", TRUE), Record("uploads/a.png", TRUE) >>,
    << Record("uploads/a.png", FALSE), Record("uploads/a.png", TRUE) >>,
    << Record("uploads/c.png", TRUE), Record("uploads/a.png", FALSE) >> }

\* The messages of the errors s3Client.putObject rejects with.
PutErrorMessages == { "", "AccessDenied" }

NoBatchEnv == [outputBucket |-> FALSE, watermark |-> FALSE]

BatchIdle ==
  /\ benv = NoBatchEnv
  /\ bpc = "idle"
  /\ records = << >>
  /\ ri = 0
  /\ vi = 0
  /\ results = << >>
  /\ attempts = << >>
  /\ batches = << >>
  /\ outputs = { }
  /\ documents = << >>
  /\ bres = "none"
  /\ fetches = { }

\* processingResults.push({ transformType, outputKey, ..., status: 'success' })
SuccessResult(transform, outputKey) ==
  [transformType |-> transform.suffix, status |-> "success",
   outputKey |-> outputKey, errorMessage |-> Absent]

\* processingResults.push({ transformType, status: 'error', errorMessage:
\*   transformError.message || 'Unknown error during transformation' })
ErrorResult(transform, message) ==
  [transformType |-> transform.suffix, status |-> "error", outputKey |-> Absent,
   errorMessage |-> IF message # "" THEN message
                    ELSE "Unknown error during transformation"]

Attempt(loop, suffix, ok) == [loop |-> loop, suffix |-> suffix, ok |-> ok]

\* A call of s3Client.getObject for a record, in the try block ("first") or
\* in the catch (err) block ("second"), and whether it gave the object.
GetObjectCall(record, loop, ok) == [record |-> record, loop |-> loop, ok |-> ok]

Batch(record, tried, recorded) ==
  [record |-> record, attempts |-> tried, results |-> recorded]

CurrentKey == records[ri].key

\* The for loop over event.Records goes to its next record, or is through and
\* handleS3Event returns.
Continue ==
  IF ri < Len(records)
    THEN /\ ri' = ri + 1
         /\ bpc' = "record"
         /\ UNCHANGED bres
    ELSE /\ bpc' = "done"
         /\ bres' = "returned"
         /\ UNCHANGED ri

\* The error thrown leaves handleS3Event; handler() logs it and throws it again.
Raise ==
  /\ bpc' = "done"
  /\ bres' = "raised"
  /\ UNCHANGED ri

\* handler(event) with an S3 event: handleS3Event throws when OUTPUT_BUCKET is
\* not set, else it enters the loop over the records.
S3EventStart(event, outputBucket, watermark) ==
  /\ bpc = "idle"
  /\ benv' = [outputBucket |-> outputBucket, watermark |-> watermark]
  /\ records' = event
  /\ IF outputBucket
       THEN /\ ri' = 1
            /\ bpc' = "record"
            /\ UNCHANGED bres
       ELSE /\ ri' = 0
            /\ bpc' = "done"
            /\ bres' = "raised"
  /\ UNCHANGED << vi, results, attempts, batches, outputs, documents >>
  /\ UNCHANGED fetches
  /\ UNCHANGED << procVars, handlerVars, callVars >>

\* The head of the try block: bucket and key are read from the record and
\* files that are no images are skipped.  Reading a record that has no key
\* throws; the catch (err) block reads the record again, outside its own try,
\* and the error of that read leaves the loop.
RecordBegin ==
  /\ bpc = "record"
  /\ IF ~records[ri].wellFormed
       THEN Raise
     ELSE IF FileExtension(CurrentKey) \notin IMAGE_FORMATS
       THEN Continue
     ELSE /\ bpc' = "firstGet"
          /\ UNCHANGED << ri, bres >>
  /\ vi' = 0
  /\ results' = << >>
  /\ attempts' = << >>
  /\ UNCHANGED << benv, records, batches, outputs, documents >>
  /\ UNCHANGED fetches
  /\ UNCHANGED << procVars, handlerVars, callVars >>

\* s3Client.getObject in the try block.  When it fails the catch (err) block
\* runs: keys outside uploads/ and keys without an image extension are skipped.
FirstGetObject ==
  /\ bpc = "firstGet"
  /\ \/ /\ bpc' = "firstVariant"
        /\ vi' = 1
        /\ fetches' = fetches \cup { GetObjectCall(ri, "first", TRUE) }
        /\ UNCHANGED << faults, ri, bres >>
     \/ /\ CanFail
        /\ Fault
        /\ fetches' = fetches \cup { GetObjectCall(ri, "first", FALSE) }
        /\ IF ~StartsWith(CurrentKey, "uploads/")
             THEN Continue
           ELSE IF FileExtension(CurrentKey) \notin IMAGE_FORMATS
             THEN Continue
           ELSE /\ bpc' = "secondGet"
                /\ UNCHANGED << ri, bres >>
        /\ UNCHANGED vi
  /\ UNCHANGED << benv, records, results, attempts, batches, outputs, documents >>
  /\ UNCHANGED << cacheEnabled, store, meta, pc, req, loc, out, log, calls >>
  /\ UNCHANGED << handlerVars, callVars >>

\* One transformation of the try block's loop.  The request it hands to
\* process() has no originalImage and no artifact is cached for it, so
\* process() throws at Buffer.from; the catch (transformError) logs the error
\* and the loop goes on.  Nothing is recorded for the transformation.
FirstVariant ==
  /\ bpc = "firstVariant"
  /\ LET tried == Append(attempts, Attempt("first", FirstTransformations[vi], FALSE))
     IN  /\ attempts' = tried
         /\ IF vi < Len(FirstTransformations)
              THEN /\ vi' = vi + 1
                   /\ UNCHANGED << bpc, ri, bres, batches >>
              ELSE /\ batches' = Append(batches, Batch(ri, tried, results))
                   /\ Continue
                   /\ UNCHANGED vi
  /\ UNCHANGED << benv, records, results, outputs, documents >>
  /\ UNCHANGED fetches
  /\ UNCHANGED << procVars, handlerVars, callVars >>

\* s3Client.getObject in the catch (err) block's try.
SecondGetObject ==
  /\ bpc = "secondGet"
  /\ \/ /\ bpc' = "secondCall"
        /\ vi' = 1
        /\ results' = << >>
        /\ fetches' = fetches \cup { GetObjectCall(ri, "second", TRUE) }
        /\ UNCHANGED faults
     \/ /\ CanFail
        /\ Fault
        /\ fetches' = fetches \cup { GetObjectCall(ri, "second", FALSE) }
        /\ bpc' = "errorDocument"
        /\ UNCHANGED << vi, results >>
  /\ UNCHANGED << benv, records, ri, attempts, batches, outputs, documents, bres >>
  /\ UNCHANGED << cacheEnabled, store, meta, pc, req, loc, out, log, calls >>
  /\ UNCHANGED << handlerVars, callVars >>

CurrentTransform == Transformations(benv.watermark)[vi]

\* requestInfo is built for the transformation and imageHandler.process called.
SecondCall ==
  /\ bpc = "secondCall"
  /\ Call("p1", SyntheticRequest(CurrentKey, CurrentTransform))
  /\ bpc' = "secondProcess"
  /\ UNCHANGED << benv, records, ri, vi, results, attempts, batches, outputs,
                  documents, bres >>
  /\ UNCHANGED fetches
  /\ UNCHANGED << handlerVars, callVars >>

\* The loop going on before the outcome of its transformation is recorded.
NextVariant_Unrecorded(tried, recorded) ==
  /\ UNCHANGED << attempts, results >>
  /\ IF vi < Len(Transformations(benv.watermark))
       THEN /\ vi' = vi + 1
            /\ bpc' = "secondCall"
            /\ UNCHANGED batches
       ELSE /\ bpc' = "document"
            /\ batches' = Append(batches, Batch(ri, tried, recorded))
            /\ UNCHANGED vi

\* The loop goes to the next transformation; after the last one the batch
\* document is put.
NextVariant(tried, recorded) ==
  /\ attempts' = tried
  /\ results' = recorded
  /\ IF vi < Len(Transformations(benv.watermark))
       THEN /\ vi' = vi + 1
            /\ bpc' = "secondCall"
            /\ UNCHANGED batches
       ELSE /\ bpc' = "document"
            /\ batches' = Append(batches, Batch(ri, tried, recorded))
            /\ UNCHANGED vi

\* process() has returned or thrown.  Its image is put under the output key
\* and a 'success' entry pushed; an error of process() or of putObject is
\* caught and an 'error' entry pushed.
SecondStore ==
  /\ bpc = "secondProcess"
  /\ pc["p1"] = "done"
  /\ LET t == CurrentTransform
         failed == Append(attempts, Attempt("second", t.suffix, FALSE))
     IN  IF out["p1"].kind = "error"
           THEN /\ NextVariant(failed, Append(results, ErrorResult(t, out["p1"].code)))
                /\ UNCHANGED << outputs, faults >>
           ELSE \/ /\ outputs' = outputs \cup { OutputKey(CurrentKey, t) }
                   /\ NextVariant(Append(attempts, Attempt("second", t.suffix, TRUE)),
                                  Append(results,
                                         SuccessResult(t, OutputKey(CurrentKey, t))))
                   /\ UNCHANGED faults
                \/ /\ CanFail
                   /\ Fault
                   /\ \E message \in PutErrorMessages :
                        NextVariant(failed, Append(results, ErrorResult(t, message)))
                   /\ UNCHANGED outputs
  /\ UNCHANGED << benv, records, ri, documents, bres >>
  /\ UNCHANGED << cacheEnabled, store, meta, pc, req, loc, out, log, calls >>
  /\ UNCHANGED fetches
  /\ UNCHANGED << handlerVars, callVars >>

\* dynamoDbClient.put of the batch document; its failure is logged only.
PutDocument ==
  /\ bpc = "document"
  /\ \/ /\ documents' = Append(documents,
                               [record |-> ri, status |-> "completed",
                                originalKey |-> CurrentKey,
                                processingResults |-> results])
        /\ UNCHANGED faults
     \/ /\ CanFail
        /\ Fault
        /\ UNCHANGED documents
  /\ Continue
  /\ UNCHANGED << benv, records, vi, results, attempts, batches, outputs >>
  /\ UNCHANGED << cacheEnabled, store, meta, pc, req, loc, out, log, calls >>
  /\ UNCHANGED fetches
  /\ UNCHANGED << handlerVars, callVars >>

\* catch (processingError): the error document is put; its failure is logged
\* only.
PutErrorDocument ==
  /\ bpc = "errorDocument"
  /\ \/ /\ documents' = Append(documents,
                               [record |-> ri, status |-> "error",
                                originalKey |-> CurrentKey,
                                processingResults |-> << >>])
        /\ UNCHANGED faults
     \/ /\ CanFail
        /\ Fault
        /\ UNCHANGED documents
  /\ Continue
  /\ UNCHANGED << benv, records, vi, results, attempts, batches, outputs >>
  /\ UNCHANGED << cacheEnabled, store, meta, pc, req, loc, out, log, calls >>
  /\ UNCHANGED fetches
  /\ UNCHANGED << handlerVars, callVars >>

vars == << procVars, hostVars >>

ProcStep(p) ==
  \/ HeadObject(p)
  \/ StatsGet(p)
  \/ StatsUpdate(p)
  \/ FetchCached(p)
  \/ Probe(p)
  \/ ApplyEdits(p)
  \/ ApplyFormatting(p)
  \/ Upload(p)
  \/ PutMeta(p)
  \/ PutFailed(p)

\* Requests arrive one after the other.
NextProcess ==
  \/ \E r \in Requests : Invoke("p1", r)
  \/ ProcStep("p1")

InitProcess == ProcInit /\ HandlerIdle /\ BatchIdle /\ CallIdle

SpecProcess == InitProcess /\ [][NextProcess]_vars

\* The artifact of the fingerprint of ReqA as a call with caching enabled left
\* it when the source object was the JPEG (ReqA2).
LeftoverArtifact ==
  applyFormatting(applyEdits(SourceBuffer(ReqA2), ReqA2.edits), ReqA2.outputFormat)

\* The output bucket and the metadata table hold an artifact and its record
\* from an earlier run; ENABLE_CACHE is as the deployment has it now.
InitLeftover ==
  /\ cacheEnabled \in BOOLEAN
  /\ store = [id \in ImageIds |->
               IF id = ImageIdOf[ReqA] THEN Object(LeftoverArtifact) ELSE NoObject]
  /\ meta = [id \in ImageIds |->
              IF id = ImageIdOf[ReqA]
                THEN Item("processed", FALSE, "webp", BufLen(LeftoverArtifact))
                ELSE NoRecord]
  /\ pc = [p \in Procs |-> "idle"]
  /\ req = [p \in Procs |-> ReqA]
  /\ loc = [p \in Procs |-> NoLocals]
  /\ out = [p \in Procs |-> NoResult]
  /\ log = [p \in Procs |-> << >>]
  /\ calls = 0
  /\ faults = 0
  /\ HandlerIdle
  /\ BatchIdle
  /\ CallIdle

SpecLeftover == InitLeftover /\ [][NextProcess]_vars

\* Two invocations at once (two Lambda instances), for one fingerprint: the
\* same bucket, key, edits and output format, before and after the source
\* object was replaced.
ConcurrentRequests == { ReqA, ReqA2 }

NextConcurrent ==
  \E p \in Procs :
    \/ \E r \in ConcurrentRequests : Invoke(p, r)
    \/ ProcStep(p)

SpecConcurrent == InitProcess /\ [][NextConcurrent]_vars

\* Requests for two buckets arrive one after the other.
NextCollision ==
  \/ \E r \in CollidingRequests : Invoke("p1", r)
  \/ ProcStep("p1")

SpecCollision == InitProcess /\ [][NextCollision]_vars

\* Requests with the same edits in either insertion order arrive one after
\* the other.
NextReorder ==
  \/ \E r \in ReorderedRequests : Invoke("p1", r)
  \/ ProcStep("p1")

SpecReorder == InitProcess /\ [][NextReorder]_vars

\* Request events arrive one after the other at one Lambda instance.
NextHandler ==
  \/ \E e \in HandlerEvents : HandlerStart(e[1], e[2])
  \/ RequestSetup
  \/ ProcStep("p1")
  \/ ProcessReturns
  \/ FallbackImage
  \/ Tick
  \/ TimerFires
  \/ HeadResponse
  \/ WriteResponse
  \/ RewriteResponse

SpecHandler == InitProcess /\ [][NextHandler]_vars

\* One upload notification is handled.
NextBatch ==
  \/ \E event \in Events, outputBucket \in BOOLEAN, watermark \in BOOLEAN :
       S3EventStart(event, outputBucket, watermark)
  \/ RecordBegin
  \/ FirstGetObject
  \/ FirstVariant
  \/ SecondGetObject
  \/ SecondCall
  \/ ProcStep("p1")
  \/ SecondStore
  \/ PutDocument
  \/ PutErrorDocument

SpecBatch == InitProcess /\ [][NextBatch]_vars

(***************************************************************************)
(* applyEdits called on its own                                            *)
(***************************************************************************)

\* The longest edits object of which every insertion order is tried.
MaxEdits == 2

\* The properties an edits object is made of in the model: a key with a value.
EditPool ==
  { Edit("resize", "{\"width\":100}", TRUE),
    Edit("grayscale", "true", TRUE),
    Edit("grayscale", "false", FALSE),
    Edit("flip", "true", TRUE),
    Edit("flop", "true", TRUE),
    Edit("rotate", "90", TRUE),
    Edit("rotate", "0", FALSE),
    Edit("background", "\"#fff\"", TRUE),
    Edit("flatten", "{}", TRUE),
    Edit("rgb", "{\"r\":0,\"g\":0,\"b\":0}", TRUE),
    Edit("rgb", "{\"r\":1,\"g\":0,\"b\":0}", TRUE),
    Edit("normalize", "true", TRUE),
    Edit("threshold", "128", TRUE),
    Edit("sharpen", "true", TRUE),
    Edit("blur", "2", TRUE),
    Edit("extend", "{\"top\":1}", TRUE),
    Edit("watermark", "{\"text\":\"wm\"}", TRUE),
    Edit("jpeg", "{}", TRUE),
    Edit("png", "{}", TRUE),
    Edit("webp", "{}", TRUE),
    Edit("tiff", "{}", TRUE),
    Edit("gif", "{}", TRUE),
    Edit("avif", "{}", TRUE),
    Edit("compress", "true", TRUE) }

\* An object has each key once.
DistinctKeys(entries) ==
  \A i, j \in DOMAIN entries : i # j => entries[i].k # entries[j].k

ShortEntries ==
  UNION { { e \in [1..n -> EditPool] : DistinctKeys(e) } : n \in 0..MaxEdits }

\* The example of the executor's contract: { flip, rotate: 90, grayscale }.
FlipRotateGrayscale ==
  << Edit("flip", "true", TRUE), Edit("rotate", "90", TRUE),
     Edit("grayscale", "true", TRUE) >>

\* Every edit at once, the per-format options first and avif before jpeg.
EveryEdit ==
  << Edit("avif", "{}", TRUE),
     Edit("gif", "{}", TRUE),
     Edit("tiff", "{}", TRUE),
     Edit("webp", "{}", TRUE),
     Edit("png", "{}", TRUE),
     Edit("jpeg", "{}", TRUE),
     Edit("watermark", "{\"text\":\"wm\"}", TRUE),
     Edit("extend", "{\"top\":1}", TRUE),
     Edit("blur", "2", TRUE),
     Edit("sharpen", "true", TRUE),
     Edit("threshold", "128", TRUE),
     Edit("normalize", "true", TRUE),
     Edit("rgb", "{\"r\":1,\"g\":0,\"b\":0}", TRUE),
     Edit("flatten", "{}", TRUE),
     Edit("background", "\"#fff\"", TRUE),
     Edit("rotate", "90", TRUE),
     Edit("flop", "true", TRUE),
     Edit("flip", "true", TRUE),
     Edit("grayscale", "true", TRUE),
     Edit("resize", "{\"width\":100}", TRUE) >>

EditEntries == ShortEntries \cup { FlipRotateGrayscale, EveryEdit }

Reverse(entries) == [i \in DOMAIN entries |-> entries[Len(entries) + 1 - i]]

Rotated(entries, k) ==
  [i \in DOMAIN entries |-> entries[((i + k - 1) % Len(entries)) + 1]]

\* The same properties inserted in another order: every order of a short
\* object, the reverse and the rotations of a long one.
Reorderings(entries) ==
  IF Len(entries) <= MaxEdits + 1
    THEN { [i \in DOMAIN entries |-> entries[f[i]]] :
             f \in { g \in [DOMAIN entries -> DOMAIN entries] :
                       \A i, j \in DOMAIN entries : i # j => g[i] # g[j] } }
    ELSE { Reverse(entries) } \cup { Rotated(entries, k) : k \in DOMAIN entries }

\* The source images applyEdits is called with.
EditedImages == { "pngA", "cut" }

\* applyEdits(originalImage, edits): the edited buffer, or ImageEditsError
\* when the engine throws.
applyEditsResult(image, edits) ==
  IF EngineCanRender(Buffer(image, << >>, "orig"))
    THEN Returned(applyEdits(Buffer(image, << >>, "orig"), edits))
    ELSE ImageEditsError

\* applyEdits is called for an image and an edits object.
ApplyEditsCall ==
  /\ arg = << >>
  /\ \E image \in EditedImages, entries \in EditEntries :
       /\ arg' = << [image |-> image, edits |-> Edits(entries)] >>
       /\ ret' = << applyEditsResult(image, Edits(entries)) >>
  /\ UNCHANGED << procVars, handlerVars, batchVars >>

\* applyEdits is called again for the same image and the same properties,
\* inserted in another order.
ApplyEditsAgain ==
  /\ Len(arg) = 1
  /\ \E entries \in Reorderings(arg[1].edits.entries) :
       /\ arg' = Append(arg, [image |-> arg[1].image, edits |-> Edits(entries)])
       /\ ret' = Append(ret, applyEditsResult(arg[1].image, Edits(entries)))
  /\ UNCHANGED << procVars, handlerVars, batchVars >>

NextEdits ==
  \/ ApplyEditsCall
  \/ ApplyEditsAgain

\* applyEdits reads no configuration: one configuration is enough.
InitEdits == InitProcess /\ ~cacheEnabled /\ ~env.objectLambda /\ ~env.fallback

SpecEdits == InitEdits /\ [][NextEdits]_vars

(***************************************************************************)
(* buildResponseHeaders called on its own                                  *)
(***************************************************************************)

\* The status codes of the responses it is called for.
HeaderStatuses == { 200, 304, 399, 400, 404, 413, 499, 500, 503, 598, 599, 600 }

\* The headers of the responses: Cache-Control as the request, the fallback
\* image or nothing set it, the other headers set or undefined.
HeaderInputs ==
  [ { "Cache-Control", "Content-Type", "Expires" } ->
      { Absent, "max-age=31536000,public", "max-age=60, public",
        "no-cache=\"set-cookie\"", "image/png" } ]

\* buildResponseHeaders(finalResponse) is called for a response.
BuildResponseHeadersCall ==
  /\ arg = << >>
  /\ \E statusCode \in HeaderStatuses, headers \in HeaderInputs :
       /\ arg' = << [statusCode |-> statusCode, headers |-> headers] >>
       /\ ret' = << buildResponseHeaders(statusCode, headers) >>
  /\ UNCHANGED << procVars, handlerVars, batchVars >>

NextHeaders == BuildResponseHeadersCall

\* buildResponseHeaders reads no configuration: one configuration is enough.
SpecHeaders == InitEdits /\ [][NextHeaders]_vars

(***************************************************************************)
(* handleDefaultFallbackImage and the delivery of its response             *)
(***************************************************************************)

\* The one-year default.
DefaultCacheControl == "max-age=31536000,public"

\* a ?? b ?? c
Coalesce(a, b, c) == IF a # Absent THEN a ELSE IF b # Absent THEN b ELSE c

\* The priority with the request's Cache-Control first.
FallbackCacheControl_RequestFirst(objectCacheControl, parsed) ==
  Coalesce(IF parsed.throws THEN Absent ELSE parsed.value, objectCacheControl,
           DefaultCacheControl)

\* headers["Cache-Control"] of handleDefaultFallbackImage: parseImageHeaders
\* gives the request's Cache-Control, nothing, or throws (the throw is
\* swallowed); then defaultFallbackImage.CacheControl ?? headers["Cache-Control"]
\* ?? the default.
FallbackCacheControl(objectCacheControl, parsed) ==
  Coalesce(objectCacheControl, IF parsed.throws THEN Absent ELSE parsed.value,
           DefaultCacheControl)

\* The headers handleDefaultFallbackImage builds.
FallbackHeaders(objectCacheControl, parsed) ==
  ( "Content-Type" :> "image/png" @@ "Last-Modified" :> "Thu, 05 Nov 2026"
 @@ "Cache-Control" :> FallbackCacheControl(objectCacheControl, parsed) )
    @@ getResponseHeaders(FALSE)

\* buildWriteResponseParams(getObjectEvent, finalResponse, responseHeaders)
buildWriteResponseParams(context, resp, responseHeaders) ==
  LET hasCacheControl == /\ "Cache-Control" \in DOMAIN responseHeaders
                         /\ responseHeaders["Cache-Control"] \notin { Absent, "" }
      others == [n \in DOMAIN responseHeaders \ { "Cache-Control" } |-> responseHeaders[n]]
  IN  [Body |-> resp.body,
       RequestRoute |-> context.outputRoute,
       RequestToken |-> context.outputToken,
       CacheControl |-> IF hasCacheControl THEN responseHeaders["Cache-Control"] ELSE Absent,
       Metadata |-> (IF hasCacheControl THEN others ELSE responseHeaders)
                      @@ ("StatusCode" :> ToString(resp.statusCode))]

\* The statuses of the errors the fallback image stands in for (0: none).
FallbackErrorStatuses ==
  { 0, StatusBadRequest, StatusRequestTooLong, StatusInternalServerError, StatusTimeout }

\* What parseImageHeaders does for the request.
ParsedHeaders ==
  { [throws |-> TRUE, value |-> Absent],
    [throws |-> FALSE, value |-> Absent],
    [throws |-> FALSE, value |-> "max-age=120,public"],
    [throws |-> FALSE, value |-> "no-store"] }

\* CacheControl of the fallback object.
ObjectCacheControls == { Absent, "max-age=60,public", "no-cache" }

FallbackContexts ==
  { [outputRoute |-> "route-1", outputToken |-> "token-1"],
    [outputRoute |-> "route-2", outputToken |-> "token-2"] }

\* handleDefaultFallbackImage resolves, the fallback image fetched.
FallbackCall ==
  /\ arg = << >>
  /\ \E objectLambda \in BOOLEAN, status \in FallbackErrorStatuses,
        objectCacheControl \in ObjectCacheControls, parsed \in ParsedHeaders,
        context \in FallbackContexts :
       /\ arg' = << [objectLambda |-> objectLambda, status |-> status,
                     objectCacheControl |-> objectCacheControl, parsed |-> parsed,
                     context |-> context] >>
       /\ ret' = << [statusCode |-> IF status # 0 THEN status
                                    ELSE StatusInternalServerError,
                     isBase64Encoded |-> TRUE,
                     headers |-> FallbackHeaders(objectCacheControl, parsed),
                     body |-> ImageBody("fallback", Buffer("fbSmall", << >>, "orig"),
                                        IF objectLambda THEN "binary" ELSE "base64")] >>
  /\ UNCHANGED << procVars, handlerVars, batchVars >>

\* The handler delivers the response: it returns it in direct-proxy mode; in
\* write-back mode it builds the headers and the parameters of
\* writeGetObjectResponse.
FallbackDelivery ==
  /\ Len(arg) = 1
  /\ "objectCacheControl" \in DOMAIN arg[1]
  /\ Len(ret) = 1
  /\ ret' = Append(ret,
                   IF arg[1].objectLambda
                     THEN [kind |-> "written",
                           params |-> buildWriteResponseParams(
                                        arg[1].context, ret[1],
                                        buildResponseHeaders(ret[1].statusCode,
                                                             ret[1].headers))]
                     ELSE [kind |-> "returned", value |-> ret[1]])
  /\ UNCHANGED arg
  /\ UNCHANGED << procVars, handlerVars, batchVars >>

NextFallback == FallbackCall \/ FallbackDelivery

SpecFallback == InitEdits /\ [][NextFallback]_vars

(***************************************************************************)
(* normalizeEvent called on its own                                        *)
(***************************************************************************)

\* The most query parameters of a URL.
MaxParams == 2

RECURSIVE IndexOfString(_, _, _)
\* String.prototype.indexOf(sub) from position i on; Len(s) + 1 = not found.
IndexOfString(s, sub, i) ==
  IF i + Len(sub) - 1 > Len(s) THEN Len(s) + 1
  ELSE IF SubSeq(s, i, i + Len(sub) - 1) = sub THEN i
  ELSE IndexOfString(s, sub, i + 1)

RECURSIVE Split(_, _)
\* s.split(sep), sep not empty
Split(s, sep) ==
  LET i == IndexOfString(s, sep, 1)
  IN  IF i > Len(s) THEN << s >>
      ELSE << SubSeq(s, 1, i - 1) >> \o Split(SubSeq(s, i + Len(sep), Len(s)), sep)

RECURSIVE Join(_, _)
\* parts.join(sep)
Join(parts, sep) ==
  IF parts = << >> THEN ""
  ELSE IF Len(parts) = 1 THEN parts[1]
  ELSE parts[1] \o sep \o Join(Tail(parts), sep)

RECURSIVE PlusDecoded(_)
\* URLSearchParams reads '+' as a space (the texts of the model have no
\* percent escapes)
PlusDecoded(s) ==
  IF s = "" THEN ""
  ELSE (IF SubSeq(s, 1, 1) = "+" THEN " " ELSE SubSeq(s, 1, 1))
         \o PlusDecoded(SubSeq(s, 2, Len(s)))

\* One entry of new URLSearchParams(queryString): name and value part at the
\* first '='.
SearchParam(piece) ==
  LET eq == IndexOf(piece, "=", 1)
  IN  [k |-> PlusDecoded(SubSeq(piece, 1, eq - 1)),
       v |-> PlusDecoded(SubSeq(piece, eq + 1, Len(piece)))]

\* new URLSearchParams(queryString).entries(): empty pieces are skipped.
URLSearchParams(queryString) ==
  LET pieces == SelectSeq(Split(queryString, "&"), LAMBDA piece : piece # "")
  IN  [i \in DOMAIN pieces |-> SearchParam(pieces[i])]

\* key.slice(0, 3).replace("ol-", "") + key.slice(3)
RecoveredKey(key) ==
  IF Len(key) >= 3 /\ SubSeq(key, 1, 3) = "ol-" THEN SubSeq(key, 4, Len(key)) ELSE key

RECURSIVE Assigned(_, _)
\* results[...] = value for the entries in order: a later entry replaces an
\* earlier one of the same key.
Assigned(dict, entries) ==
  IF entries = << >> THEN dict
  ELSE Assigned((RecoveredKey(entries[1].k) :> entries[1].v) @@ dict, Tail(entries))

\* extractObjectLambdaQueryParams; Absent: queryString is undefined
extractObjectLambdaQueryParams(queryString) ==
  IF queryString = Absent THEN << >>
  ELSE Assigned(<< >>, URLSearchParams(queryString))

\* normalizeEvent for an S3 Object Lambda event
normalizeEvent(url, host) ==
  LET fullPath  == Split(url, host)[2]
      parts     == Split(fullPath, "?")
      pathString == parts[1]
      queryParamsString == IF Len(parts) >= 2 THEN parts[2] ELSE Absent
  IN  [path |-> Join(Tail(Split(pathString, "/image")), "/image"),
       queryStringParameters |-> extractObjectLambdaQueryParams(queryParamsString)]

\* The query parameters of the URLs of the model.
ParamKeys == { "ol-expires", "expires", "ol-signature", "w", "ol-ol-x", "olx" }
ParamValues == { "1", "20", "a?b" }
Params == [k : ParamKeys, v : ParamValues]
ParamLists == UNION { [1..n -> Params] : n \in 0..MaxParams }

\* The URL S3 Object Lambda hands over for a request with these parameters.
UserRequestUrl(params) ==
  "https://ap.s3-object-lambda.io/image/u/a.png"
    \o (IF params = << >> THEN ""
        ELSE "?" \o Join([i \in DOMAIN params |-> params[i].k \o "=" \o params[i].v], "&"))

\* normalizeEvent(event, "Yes") is called for an event with this URL.
NormalizeEventCall ==
  /\ arg = << >>
  /\ \E params \in ParamLists :
       /\ arg' = << [url |-> UserRequestUrl(params), params |-> params] >>
       /\ ret' = << normalizeEvent(UserRequestUrl(params), "ap.s3-object-lambda.io") >>
  /\ UNCHANGED << procVars, handlerVars, batchVars >>

NextNormalize == NormalizeEventCall

SpecNormalize == InitEdits /\ [][NextNormalize]_vars

(***************************************************************************)
(* convertHexToRgb called on its own                                       *)
(***************************************************************************)

\* The longest text made of every combination of characters.
MaxHexLen == 4

\* [a-f\d] with the i flag
IsHexDigit(c) == IndexOf("0123456789abcdef", c, 1) <= 16 \/ IndexOf("ABCDEF", c, 1) <= 6

\* parseInt(c, 16) of one hex digit
HexDigitValue(c) ==
  IF IndexOf("0123456789abcdef", c, 1) <= 16
    THEN IndexOf("0123456789abcdef", c, 1) - 1
    ELSE IndexOf("ABCDEF", c, 1) + 9

\* parseInt(pair, 16) of two hex digits
ParseHexPair(pair) == 16 * HexDigitValue(CharAt(pair, 1)) + HexDigitValue(CharAt(pair, 2))

\* The text after an optional leading '#': what '^#?' leaves to the groups.
AfterHash(hex) == IF StartsWith(hex, "#") THEN SubSeq(hex, 2, Len(hex)) ELSE hex

\* /^#?([a-f\d])([a-f\d])([a-f\d])$/i matches
MatchesShorthand(hex) ==
  Len(AfterHash(hex)) = 3 /\ \A i \in 1..3 : IsHexDigit(CharAt(AfterHash(hex), i))

\* /^#?([a-f\d]{2})([a-f\d]{2})([a-f\d]{2})$/i matches
MatchesFull(hex) ==
  Len(AfterHash(hex)) = 6 /\ \A i \in 1..6 : IsHexDigit(CharAt(AfterHash(hex), i))

\* hex.replace(shorthandRegex, (_, r, g, b) => r + r + g + g + b + b): the whole
\* match, the '#' with it, is replaced
ShorthandExpanded(hex) ==
  IF MatchesShorthand(hex)
    THEN LET h == AfterHash(hex)
         IN  CharAt(h, 1) \o CharAt(h, 1) \o CharAt(h, 2) \o CharAt(h, 2)
               \o CharAt(h, 3) \o CharAt(h, 3)
    ELSE hex

\* The parse of the full form alone.
ParsedHex(hexValue) ==
  IF MatchesFull(hexValue)
    THEN [r |-> ParseHexPair(SubSeq(AfterHash(hexValue), 1, 2)),
          g |-> ParseHexPair(SubSeq(AfterHash(hexValue), 3, 4)),
          b |-> ParseHexPair(SubSeq(AfterHash(hexValue), 5, 6))]
    ELSE [r |-> 0, g |-> 0, b |-> 0]

\* convertHexToRgb without the expansion of the shorthand form.
convertHexToRgb_NoShorthand(hex) == ParsedHex(hex)

\* convertHexToRgb
convertHexToRgb(hex) == ParsedHex(ShorthandExpanded(hex))

\* The texts it is called with: every text of up to MaxHexLen characters of
\* HexAlphabet, and texts of three pairs with and without '#', and longer ones.
HexAlphabet == { "0", "f", "A", "8", "g", "#" }
HexPairs == { "00", "ff", "A8", "0g", "7F" }
HexTexts ==
  { Join(t, "") : t \in UNION { [1..n -> HexAlphabet] : n \in 0..MaxHexLen } }
    \cup { h \o x \o y \o z : h \in { "", "#" }, x \in HexPairs, y \in HexPairs, z \in HexPairs }
    \cup { "#1234567", "12345", "ff00ff00", "##fff", " fff", "fff " }

\* convertHexToRgb(hex) is called.
ConvertHexToRgbCall ==
  /\ arg = << >>
  /\ \E hex \in HexTexts :
       /\ arg' = << hex >>
       /\ ret' = << Returned(convertHexToRgb(hex)) >>
  /\ UNCHANGED << procVars, handlerVars, batchVars >>

NextHex == ConvertHexToRgbCall

SpecHex == InitEdits /\ [][NextHex]_vars

(***************************************************************************)
(* The upload handler                                                      *)
(***************************************************************************)

\* The longest body, in parts between boundaries.
MaxParts == 2

\* parseInt(process.env.MAX_ALLOWED_SIZE || '10485760', 10)
MAX_ALLOWED_SIZE == 10485760

\* (process.env.ALLOWED_FORMATS || '.jpg,.jpeg,.png,.gif,.webp,.tiff,.svg').split(',')
ALLOWED_FORMATS == { ".jpg", ".jpeg", ".png", ".gif", ".webp", ".tiff", ".svg" }

\* process.env.UPLOAD_PREFIX || 'uploads/'
UPLOAD_PREFIX == "uploads/"

RECURSIVE toLowerCase(_)
\* String.prototype.toLowerCase for ASCII text
toLowerCase(s) ==
  IF s = "" THEN ""
  ELSE LET c == SubSeq(s, 1, 1)
           i == IndexOf("ABCDEFGHIJKLMNOPQRSTUVWXYZ", c, 1)
       IN  (IF i <= 26 THEN SubSeq("abcdefghijklmnopqrstuvwxyz", i, i) ELSE c)
             \o toLowerCase(SubSeq(s, 2, Len(s)))

\* path.extname: from the last dot of the last path segment, "" when there is
\* none or when the segment starts with its only dot
extname(name) ==
  LET seg == LastSegment(name)
      dot == LastIndexOf(seg, ".", Len(seg))
  IN  IF dot <= 1 THEN "" ELSE SubSeq(seg, dot, Len(seg))

\* event.headers: undefined, or the two spellings of the content type header
\* the handler reads (Absent: not sent)
NoUploadHeaders == [present |-> FALSE]
UploadHeaders(lower, upper) == [present |-> TRUE, lower |-> lower, upper |-> upper]

\* event.headers['content-type'] || event.headers['Content-Type'] || ''
UploadContentType(headers) ==
  IF headers.lower \notin { Absent, "" } THEN headers.lower
  ELSE IF headers.upper \notin { Absent, "" } THEN headers.upper
  ELSE ""

\* contentType.match(/boundary=(?:"([^"]+)"|([^;]+))/i), for the lower-case
\* spelling the model's headers use
HasBoundary(contentType) ==
  LET at == IndexOfString(contentType, "boundary=", 1)
  IN  /\ at <= Len(contentType)
      /\ at + 9 <= Len(contentType)
      /\ SubSeq(contentType, at + 9, at + 9) # ";"

\* One part of body.split(boundary): the file name its filename="..." gives
\* (Absent: no match), the text after its Content-Type: (Absent: none),
\* whether its content lies between a blank line and a last line break, and
\* the length of the content decoded from base64.
Part(fileName, fileType, hasContent, size) ==
  [fileName |-> fileName, fileType |-> fileType, hasContent |-> hasContent, size |-> size]

\* fileNameMatch && contentTypeMatch, and the content found
IsFilePart(part) ==
  part.fileName # Absent /\ part.fileType # Absent /\ part.hasContent

NoFile == [found |-> FALSE, fileName |-> Absent, fileSize |-> 0, fileType |-> Absent]

\* parseMultipartFormData: the first part that names a file and a content
\* type and has content
parseMultipartFormData(contentType, parts) ==
  IF ~HasBoundary(contentType) THEN NoFile
  ELSE IF \A i \in DOMAIN parts : ~IsFilePart(parts[i]) THEN NoFile
  ELSE LET first == CHOOSE i \in DOMAIN parts :
                      IsFilePart(parts[i]) /\ \A j \in 1..(i - 1) : ~IsFilePart(parts[j])
       IN  [found |-> TRUE, fileName |-> parts[first].fileName,
            fileSize |-> parts[first].size, fileType |-> parts[first].fileType]

\* errorResponse(statusCode, message)
UploadError(statusCode, message) ==
  [statusCode |-> statusCode, success |-> FALSE, message |-> message]

\* generateUniqueFileName: base name, time stamp and random text, extension
generateUniqueFileName(fileName, stamp) ==
  LET seg == LastSegment(fileName)
      ext == extname(fileName)
  IN  SubSeq(seg, 1, Len(seg) - Len(ext)) \o "_" \o stamp \o ext

\* What the handler does after the file was parsed, with every check on the
\* file left out.
UploadChecked_Unchecked(sourceBucket, file, stamp, putOk) ==
  IF ~putOk
    THEN [response |-> UploadError(500, "Error processing upload"), puts |-> << >>]
  ELSE [response |-> [statusCode |-> 200, success |-> TRUE,
                      message |-> "File uploaded successfully"],
        puts |-> << [Bucket |-> sourceBucket,
                     Key |-> UPLOAD_PREFIX \o generateUniqueFileName(file.fileName, stamp),
                     ContentType |-> file.fileType, size |-> file.fileSize] >>]

\* The checks on the parsed file, then s3Client.putObject and the response.
UploadChecked(sourceBucket, file, stamp, putOk) ==
  IF ~file.found
    THEN [response |-> UploadError(400, "No file found in request"), puts |-> << >>]
  ELSE IF file.fileSize > MAX_ALLOWED_SIZE
    THEN [response |-> UploadError(400, "File size exceeds maximum allowed size"),
          puts |-> << >>]
  ELSE IF toLowerCase(extname(file.fileName)) \notin ALLOWED_FORMATS
    THEN [response |-> UploadError(400, "Unsupported file type"), puts |-> << >>]
  ELSE IF ~putOk
    THEN [response |-> UploadError(500, "Error processing upload"), puts |-> << >>]
  ELSE [response |-> [statusCode |-> 200, success |-> TRUE,
                      message |-> "File uploaded successfully"],
        puts |-> << [Bucket |-> sourceBucket,
                     Key |-> UPLOAD_PREFIX \o generateUniqueFileName(file.fileName, stamp),
                     ContentType |-> file.fileType, size |-> file.fileSize] >>]

\* The upload handler: its response and the putObject calls that succeeded.
\* Reading a header of an event without headers throws inside the try block;
\* the catch answers 500.
uploadHandler(sourceBucket, headers, parts, stamp, putOk) ==
  IF sourceBucket = ""
    THEN [response |-> UploadError(500, "Internal server error: Source bucket not configured"),
          puts |-> << >>]
  ELSE IF ~headers.present
    THEN [response |-> UploadError(500, "Error processing upload"), puts |-> << >>]
  ELSE IF ~Includes(UploadContentType(headers), "multipart/form-data")
    THEN [response |-> UploadError(400, "Invalid content type. Only multipart/form-data is supported"),
          puts |-> << >>]
  ELSE UploadChecked(sourceBucket,
                     parseMultipartFormData(UploadContentType(headers), parts),
                     stamp, putOk)

\* The inputs of the model.
UploadHeaderValues ==
  { NoUploadHeaders,
    UploadHeaders("multipart/form-data; boundary=x", Absent),
    UploadHeaders(Absent, "multipart/form-data; boundary=x"),
    UploadHeaders(Absent, Absent),
    UploadHeaders("application/json", "multipart/form-data; boundary=x"),
    UploadHeaders("multipart/form-data", Absent),
    UploadHeaders("Multipart/Form-Data; boundary=x", Absent) }

UploadParts ==
  { Part("a.png", "image/png", TRUE, 10),
    Part("big.jpg", "image/jpeg", TRUE, MAX_ALLOWED_SIZE + 1),
    Part("edge.JPG", "image/jpeg", TRUE, MAX_ALLOWED_SIZE),
    Part("doc.pdf", "application/pdf", TRUE, 5),
    Part(Absent, "text/plain", TRUE, 3),
    Part("e.png", "image/png", FALSE, 0),
    Part("noext", "image/png", TRUE, 4) }

UploadBodies == UNION { [1..n -> UploadParts] : n \in 0..MaxParts }

\* handler(event) of the upload function is called.
UploadCall ==
  /\ arg = << >>
  /\ \E sourceBucket \in { "", "src" }, headers \in UploadHeaderValues,
        parts \in UploadBodies, putOk \in BOOLEAN :
       /\ arg' = << [sourceBucket |-> sourceBucket, headers |-> headers,
                     parts |-> parts, putOk |-> putOk] >>
       /\ ret' = << uploadHandler(sourceBucket, headers, parts, "1700000000000_ab12", putOk) >>
  /\ UNCHANGED << procVars, handlerVars, batchVars >>

NextUpload == UploadCall

SpecUpload == InitEdits /\ [][NextUpload]_vars

(***************************************************************************)
(* Properties of process()                                                 *)
(***************************************************************************)

InLog(p, event) == \E i \in DOMAIN log[p] : log[p][i] = event

\* the position of the first occurrence of an event in the log (0: none)
FirstAt(p, event) ==
  IF InLog(p, event)
    THEN CHOOSE i \in DOMAIN log[p] :
           /\ log[p][i] = event
           /\ \A j \in 1..(i - 1) : log[p][j] # event
    ELSE 0

\* applyEdits or applyFormatting was invoked by the call
EngineRan(p) == InLog(p, "edit") \/ InLog(p, "format")

Completed(p) == pc[p] = "done"

\* The artifact and the record of the call's fingerprint when the call was made.
HitAtCall(p) == loc[p].storeAtCall[IdOf(p)].present
RecordAtCall(p) == loc[p].metaAtCall[IdOf(p)].present
CountAtCall(p) ==
  IF RecordAtCall(p) THEN loc[p].metaAtCall[IdOf(p)].accessCount ELSE 0

\* C1 as stated: every call made while the artifact of its fingerprint exists
\* returns the stored bytes, runs neither applyEdits nor applyFormatting, and
\* leaves the record's accessCount exactly 1 higher than it found it.
C1_ShortCircuitAlways ==
  \A p \in Procs :
    (Completed(p) /\ HitAtCall(p)) =>
      /\ out[p] = Returned(store[IdOf(p)].body)
      /\ ~EngineRan(p)
      /\ AccessCount(IdOf(p)) = CountAtCall(p) + 1

\* The call found the artifact and none of its cache calls failed.
CacheCallsSucceeded(p) ==
  /\ InLog(p, "check:hit")
  /\ ~InLog(p, "stats:failed")
  /\ InLog(p, "fetch:ok")

\* C1, amended: a call made while the artifact exists, with no other call in
\* progress, whose existence check, statistics read and update and fetch of the
\* stored object all succeed returns the stored bytes without applyEdits or
\* applyFormatting; the accessCount of the record is then exactly 1 higher than
\* before when the fingerprint has a record, and no record is made when it has
\* none.
C1_ShortCircuit ==
  \A p \in Procs :
    (Completed(p) /\ HitAtCall(p) /\ CacheCallsSucceeded(p)) =>
      /\ out[p] = Returned(store[IdOf(p)].body)
      /\ ~EngineRan(p)
      /\ RecordAtCall(p) =>
           /\ meta[IdOf(p)].present
           /\ meta[IdOf(p)].accessCount = CountAtCall(p) + 1
      /\ ~RecordAtCall(p) => ~meta[IdOf(p)].present

\* A second hit in a row on a fingerprint with a record: the count goes 1 -> 2.
C1_Witness ==
  /\ Completed("p1")
  /\ HitAtCall("p1")
  /\ RecordAtCall("p1")
  /\ CacheCallsSucceeded("p1")
  /\ CountAtCall("p1") = 1
  /\ meta[IdOf("p1")].accessCount = 2

CheckEvents == { "check:hit", "check:miss", "check:failed" }
StoreEvents == { "upload:ok", "upload:failed", "meta:ok", "meta:failed",
                 "failmeta:ok", "failmeta:failed" }

\* C6: in every execution of process() the existence check completes before
\* applyEdits or applyFormatting starts, and the store (upload, then metadata
\* write) starts only after applyFormatting has completed: no edit or format
\* step comes before the check, none comes after a store step, and every store
\* step has a completed formatting before it.
C6_Ordering ==
  \A p \in Procs :
    /\ \A i \in DOMAIN log[p] :
         log[p][i] \in { "edit", "format" } =>
           \E j \in 1..(i - 1) : log[p][j] \in CheckEvents
    /\ \A i \in DOMAIN log[p] :
         log[p][i] \in StoreEvents =>
           /\ \E j \in 1..(i - 1) : log[p][j] = "format"
           /\ \A j \in DOMAIN log[p] : j > i => log[p][j] \notin { "edit", "format" }
    /\ pc[p] \in { "edit", "format" } => \E j \in DOMAIN log[p] : log[p][j] \in CheckEvents
    /\ pc[p] \in { "upload", "putMeta", "putFailed" } =>
         /\ InLog(p, "format")
         /\ loc[p].formatted # NoBuffer
         /\ loc[p].formatted = applyFormatting(loc[p].modified, req[p].outputFormat)

\* A call that checked, edited, formatted and stored, in that order.
C6_Witness ==
  /\ Completed("p1")
  /\ log["p1"] = << "check:miss", "supported", "edit", "format", "upload:ok", "meta:ok" >>

\* What process() computes from the request alone, as with no cache: the
\* probe, the format check, the edits, the output formatting.
NoCacheResult(r) ==
  IF ProbeThrows(r) THEN Thrown(StatusInternalServerError, "ImageProcessingError")
  ELSE IF ~SourceSupported(r) THEN Thrown(StatusBadRequest, "ImageFormatNotSupported")
  ELSE IF r.edits.given /\ ~EngineCanRender(SourceBuffer(r))
    THEN Thrown(StatusInternalServerError, "ImageEditsError")
  ELSE LET modified == IF r.edits.given THEN applyEdits(SourceBuffer(r), r.edits)
                       ELSE SourceBuffer(r)
       IN  IF ~WantsFormat(r) THEN Returned(modified)
           ELSE IF EngineCanRender(modified)
             THEN Returned(applyFormatting(modified, r.outputFormat))
           ELSE Thrown(StatusInternalServerError, "ImageFormatError")

\* One of the call's cache operations failed.
CacheFailure(p) ==
  \E e \in { "check:failed", "stats:failed", "fetch:failed",
             "upload:failed", "meta:failed", "failmeta:failed" } : InLog(p, e)

HasForeignEdit(r) == r.edits.given /\ ~(EditKeys(r.edits) \subseteq AllowlistedEdit)

\* C8: a request with an edit key outside the allow-list is rejected with an
\* error before any engine operation is applied to its source bytes.
C8_AllowListEnforced ==
  \A p \in Procs :
    (HasForeignEdit(req[p]) /\ pc[p] # "idle") =>
      /\ ~EngineRan(p)
      /\ Completed(p) => out[p].kind = "error"

\* The call ends with writes: objects put, records put or updated.
Wrote(p) == store # loc[p].storeAtCall \/ meta # loc[p].metaAtCall

\* The request's source format is known and is not a supported one.
UnsupportedSource(r) ==
  ~ProbeThrows(r) /\ ContentTypeOf(r) \notin { "jpeg", "png", "webp", "tiff", "gif", "avif" }

BothStored ==
  \A p \in Procs :
    /\ Completed(p)
    /\ log[p] = << "check:miss", "supported", "edit", "format", "upload:ok", "meta:ok" >>

\* C5: after two concurrent calls for one fingerprint both missed, computed
\* and stored, the artifact and the MetadataRecord that remain are those of one
\* and the same store, under every interleaving of the store steps.
C5_OneCompleteStore ==
  BothStored =>
    \E p \in Procs :
      /\ store[IdOf(p)] = Object(loc[p].formatted)
      /\ meta[IdOf(p)] = ProcessedItem(PassedMetadata(p))

\* The first writeGetObjectResponse call of the invocation
FirstWrite == written[1].params

\* C4: in write-back mode the timer is armed for max(remainingTime - 1000, 0)
\* milliseconds and fires no earlier; when it fired before handleRequest
\* resolved, the write-back call carries the TimeoutException status and body
\* and no processing result; when handleRequest resolved first, the write-back
\* call carries handleRequest's result.
C4_TimeoutRace ==
  /\ timer.state # "none" =>
       /\ env.objectLambda
       /\ timer.delay >= 0
       /\ timer.delay >= remaining - 1000
       /\ timer.delay \in { 0, remaining - 1000 }
  /\ timer.state = "fired" =>
       /\ clock >= timer.delay
       /\ finalResponse = TimeoutResponse
  /\ written # << >> =>
       IF timer.state = "fired"
         THEN /\ FirstWrite.StatusCode = StatusTimeout
              /\ FirstWrite.Body = ErrorBody(StatusTimeout, "TimeoutException")
         ELSE /\ timer.state = "cleared"
              /\ rpc = "resolved"
              /\ FirstWrite.StatusCode = response.statusCode
              /\ FirstWrite.Body = response.body

\* The timer fired while process() was still at work; the timeout was written
\* back, and handleRequest resolved with an image only afterwards.
C4_Witness ==
  /\ timer.state = "fired"
  /\ remaining = 2000
  /\ clock >= 1000
  /\ written # << >>
  /\ written[1].ok
  /\ FirstWrite.StatusCode = StatusTimeout
  /\ rpc = "resolved"
  /\ response.statusCode = StatusOK

\* The invocation, in direct-proxy mode, has returned a response for a request
\* that process() answered with an image whose base64 text is over the limit.
OversizedReturned ==
  /\ ~env.objectLambda
  /\ hpc = "done"
  /\ hresult.kind = "returned"
  /\ pc["p1"] = "done"
  /\ out["p1"].kind = "ok"
  /\ 4 * ((BufLen(out["p1"].body) + 2) \div 3) > 6 * 1024 * 1024

\* C10 as stated: in direct-proxy mode a processed payload whose base64 text is
\* longer than the 6 MiB ceiling yields the TooLargeImageException error
\* response, and no returned response has a body over the ceiling.
C10_AlwaysTooLargeError ==
  /\ OversizedReturned =>
       hresult.value = ErrorResponse(Thrown(StatusRequestTooLong, "TooLargeImageException"))
  /\ (~env.objectLambda /\ hresult.kind = "returned") =>
       BodyLen(hresult.value.body) <= 6 * 1024 * 1024

\* C10, amended: in direct-proxy mode a processed payload whose base64 text is
\* longer than the ceiling is never returned: the response has the status of
\* TooLargeImageException and is that error's response or, when the default
\* fallback image is enabled and was fetched, the fallback image; and every
\* returned response that carries a processed image has a body within the
\* ceiling (the fallback image is returned whatever its size).
C10_Oversized ==
  /\ OversizedReturned =>
       /\ hresult.value.statusCode = StatusRequestTooLong
       /\ \/ hresult.value = ErrorResponse(Thrown(StatusRequestTooLong, "TooLargeImageException"))
          \/ /\ env.fallback
             /\ hresult.value.body.kind = "fallback"
  /\ (~env.objectLambda /\ hresult.kind = "returned" /\ hresult.value.body.kind = "image") =>
       BodyLen(hresult.value.body) <= 6 * 1024 * 1024

\* An image one byte over 4718592 bytes: its base64 text is over the limit
\* and the error response is returned.
C10_Witness ==
  /\ OversizedReturned
  /\ req["p1"] = ReqOver
  /\ ~env.fallback
  /\ hresult.value.statusCode = StatusRequestTooLong
  /\ hresult.value.body = ErrorBody(StatusRequestTooLong, "TooLargeImageException")

(***************************************************************************)
(* Properties of handleS3Event                                             *)
(***************************************************************************)

\* The transformations configured for the loop that handled the record.
Configured(b) ==
  IF b.attempts[1].loop = "first" THEN Len(FirstTransformations)
  ELSE Len(Transformations(benv.watermark))

\* The batch result has the entry of the j-th transformation tried: 'success'
\* when it went through, 'error' with a non-empty errorMessage when it failed.
RecordedAs(b, j) ==
  /\ j <= Len(b.results)
  /\ b.results[j].transformType = b.attempts[j].suffix
  /\ IF b.attempts[j].ok
       THEN b.results[j].status = "success"
       ELSE /\ b.results[j].status = "error"
            /\ b.results[j].errorMessage \notin { "", Absent }

Isolated(b) ==
  /\ Len(b.attempts) = Configured(b)
  /\ Len(b.results) = Configured(b)
  /\ \A j \in DOMAIN b.attempts : RecordedAs(b, j)

\* C2 (batch isolation): once the transformations of an uploaded object are
\* through, every configured transformation was tried, the batch result holds
\* exactly one entry per configured transformation, 'success' for each that
\* went through and 'error' with a non-empty errorMessage for each that
\* failed, and no failure of a transformation made the invocation raise.
C2_BatchIsolation ==
  /\ \A i \in DOMAIN batches : Isolated(batches[i])
  /\ bpc \in { "firstVariant", "secondCall", "secondProcess", "document" }
       => bres = "none"

\* The same for the objects handled by the loop of the catch (err) block.
SecondLoopIsolated ==
  \A i \in DOMAIN batches :
    batches[i].attempts[1].loop = "second" => Isolated(batches[i])

\* C3 (record isolation): an invocation that finds OUTPUT_BUCKET set never
\* raises, and when it is through the loop has come to every record of the
\* event, whatever failed while an earlier record was handled.
C3_RecordIsolation ==
  benv.outputBucket =>
    /\ bres # "raised"
    /\ bpc = "done" => ri = Len(records)

(***************************************************************************)
(* Properties of the write-back delivery                                   *)
(***************************************************************************)

\* The first writeGetObjectResponse call of the invocation failed.
FirstWriteFailed == Len(written) >= 1 /\ ~written[1].ok

\* After a failed first write-back call a second one is made, carrying the
\* S3ObjectLambdaWriteError error response.
SecondWriteMade ==
  (FirstWriteFailed /\ hpc = "done") =>
    /\ Len(written) = 2
    /\ written[2].params = WriteErrorParams

\* C11 (write-back failure): when the first writeGetObjectResponse call fails
\* a second call is made carrying the S3ObjectLambdaWriteError error, and when
\* that call fails too the handler invocation still completes without raising.
C11_WriteBackFailure ==
  /\ SecondWriteMade
  /\ (FirstWriteFailed /\ hpc = "done") => hresult.kind # "thrown"

\* C12 (timer cancellation): in write-back mode, once the race has settled,
\* whether handleRequest or the timer won it, no timer is pending: it was
\* cancelled or has fired before any write-back call is made, and none is
\* pending when the invocation ends.
C12_TimerCancelled ==
  /\ hpc \in { "respond", "rewrite", "done" } => timer.state # "armed"
  /\ written # << >> => timer.state \in { "cleared", "fired" }

\* handleRequest won the race against an armed timer, the timer was cancelled
\* and the response written back.
C12_Witness ==
  /\ hpc = "done"
  /\ timer.state = "cleared"
  /\ Len(written) = 1
  /\ written[1].ok
  /\ written[1].params = WriteParams(response)

(***************************************************************************)
(* Properties of handleRequest                                             *)
(***************************************************************************)

\* The body of the fallback image, in the encoding of the delivery mode.
FallbackBody ==
  ImageBody("fallback", Buffer(env.fallbackImage, << >>, "orig"), BodyEncoding)

\* C13 (fallback image): when handling the request raised an error (in the
\* request setup, in process() or for an oversized payload) and the fallback
\* image is enabled with a bucket and a key, the body handleRequest answers
\* with is the fallback image; when the fallback image could not be fetched
\* the answer is the error response of the error that was raised.
C13_FallbackImage ==
  (rpc = "resolved" /\ rerr # NoError /\ env.fallback) =>
    /\ fetched \in { "ok", "failed" }
    /\ fetched = "ok" => response.body = FallbackBody
    /\ fetched = "failed" => response = ErrorResponse(rerr)

\* process() rejected the source format, and the answer is the fallback image
\* with the error's status.
C13_Witness ==
  /\ rpc = "resolved"
  /\ env.fallback
  /\ rerr = Thrown(StatusBadRequest, "ImageFormatNotSupported")
  /\ fetched = "ok"
  /\ response.body = FallbackBody
  /\ response.statusCode = StatusBadRequest

\* The fallback image could not be fetched after an oversized payload: the
\* answer is the TooLargeImageException error response.
FallbackFetchFailed ==
  /\ rpc = "resolved"
  /\ rerr = Thrown(StatusRequestTooLong, "TooLargeImageException")
  /\ fetched = "failed"
  /\ response = ErrorResponse(rerr)

(***************************************************************************)
(* Properties of the fingerprint                                           *)
(***************************************************************************)

\* The fields of a request the fingerprint is made of.
Fingerprinted(r) == << r.bucket, r.key, r.edits, r.outputFormat >>

\* The call repeats the request of the call before it, which is through.
Repeats(p) ==
  /\ Completed(p)
  /\ loc[p].prevOut.kind # "none"
  /\ loc[p].prevReq = req[p]

\* Requests equal in the fingerprinted fields have the same image id.
SameFieldsSameId ==
  \A r1, r2 \in AllRequests :
    Fingerprinted(r1) = Fingerprinted(r2) => ImageIdOf[r1] = ImageIdOf[r2]

DifferentFieldsDifferentId ==
  \A r1, r2 \in AllRequests :
    Fingerprinted(r1) # Fingerprinted(r2) => ImageIdOf[r1] # ImageIdOf[r2]

\* The call returned the stored artifact.
ServedFromCache(p) == Completed(p) /\ InLog(p, "fetch:ok")

\* The artifact a cache hit serves is what a request equal to the call's in
\* the fingerprinted fields computes.
HitServesOwnArtifact ==
  \A p \in Procs :
    ServedFromCache(p) =>
      \E r \in AllRequests : /\ Fingerprinted(r) = Fingerprinted(req[p])
                             /\ out[p] = NoCacheResult(r)

\* C15 (collision-freedom): requests that differ in bucket, key, serialized
\* edits or outputFormat get different image ids, so the artifact a cache hit
\* serves is one computed for a request equal to the call's in these fields.
C15_CollisionFree == HitServesOwnArtifact /\ DifferentFieldsDifferentId

(***************************************************************************)
(* Properties of applyEdits                                                *)
(***************************************************************************)

\* The place of an engine operation in the fixed order: resize, grayscale,
\* flip, flop, rotate, the two flatten steps, rgb modulation, normalize,
\* threshold, sharpen, blur, extend, watermark, format options.
StepOf(name) ==
  CASE name = "resize"    -> 1
    [] name = "grayscale" -> 2
    [] name = "flip"      -> 3
    [] name = "flop"      -> 4
    [] name = "rotate"    -> 5
    [] name = "flatten"   -> 6
    [] name = "modulate"  -> 8
    [] name = "normalize" -> 9
    [] name = "threshold" -> 10
    [] name = "sharpen"   -> 11
    [] name = "blur"      -> 12
    [] name = "extend"    -> 13
    [] name = "composite" -> 14
    [] OTHER              -> 15

FormatKeys == << "jpeg", "png", "webp", "tiff", "gif", "avif" >>

\* The operations follow the fixed order; two flatten operations are the
\* background flatten and, right after it, the flatten edit.
InFixedOrder(edits, ops) ==
  \A i, j \in DOMAIN ops :
    i < j =>
      \/ StepOf(ops[i][1]) < StepOf(ops[j][1])
      \/ /\ j = i + 1
         /\ HasKey(edits, "background") /\ HasKey(edits, "flatten")
         /\ ops[i] = << "flatten", EditOf(edits, "background").v >>
         /\ ops[j] = << "flatten", EditOf(edits, "flatten").v >>

\* At most one format-option block, the first present of FormatKeys, last.
OneFormatBlockLast(edits, ops) ==
  LET present == { n \in DOMAIN FormatKeys : Truthy(edits, FormatKeys[n]) }
      blocks  == { i \in DOMAIN ops : \E n \in DOMAIN FormatKeys : ops[i][1] = FormatKeys[n] }
  IN  IF present = { }
        THEN blocks = { }
        ELSE LET first == CHOOSE n \in present : \A m \in present : n <= m
             IN  /\ blocks = { Len(ops) }
                 /\ ops[Len(ops)] = << FormatKeys[first], EditOf(edits, FormatKeys[first]).v >>

\* rgb modulation happens exactly when some channel is not zero.
RgbUnlessZero(edits, ops) ==
  (\E i \in DOMAIN ops : ops[i][1] = "modulate")
    <=> (HasKey(edits, "rgb") /\ EditOf(edits, "rgb").v # "{\"r\":0,\"g\":0,\"b\":0}")

\* The other steps happen exactly when their edit is given (rotate: defined).
StepsTaken(edits, ops) ==
  /\ \A k \in { "resize", "grayscale", "flip", "flop", "normalize", "threshold",
                "sharpen", "blur", "extend" } :
       Truthy(edits, k) <=> (\E i \in DOMAIN ops : ops[i][1] = k)
  /\ Defined(edits, "rotate") <=> (\E i \in DOMAIN ops : ops[i][1] = "rotate")
  /\ Truthy(edits, "watermark") <=> (\E i \in DOMAIN ops : ops[i][1] = "composite")

\* C16 (fixed application order): the operations applyEdits performs follow
\* resize, grayscale, flip, flop, rotate, background flatten, flatten, rgb
\* modulation (skipped when all channels are zero), normalize, threshold,
\* sharpen, blur, extend, watermark, format options, with at most one
\* format-option block, the first present of jpeg, png, webp, tiff, gif, avif,
\* as the last step; the same properties inserted in another order give the
\* same result.
C16_FixedOrder ==
  /\ \A i \in DOMAIN ret :
       ret[i].kind = "ok" =>
         /\ InFixedOrder(arg[i].edits, ret[i].body.ops)
         /\ OneFormatBlockLast(arg[i].edits, ret[i].body.ops)
         /\ RgbUnlessZero(arg[i].edits, ret[i].body.ops)
         /\ StepsTaken(arg[i].edits, ret[i].body.ops)
  /\ Len(ret) = 2 => ret[1] = ret[2]

\* Every edit at once, given in the reverse of the first call's order: 15
\* operations, the jpeg options last although avif was inserted before it.
C16_Witness ==
  /\ Len(ret) = 2
  /\ arg[1].edits.entries = EveryEdit
  /\ arg[2].edits.entries = Reverse(EveryEdit)
  /\ ret[2].kind = "ok"
  /\ Len(ret[2].body.ops) = 15
  /\ ret[2].body.ops[1][1] = "resize"
  /\ ret[2].body.ops[15][1] = "jpeg"

(***************************************************************************)
(* Properties of handleS3Event: documents and filtering                    *)
(***************************************************************************)

\* handleS3Event is through with record r.
ThroughWith(r) == bpc = "done" \/ ri > r

\* The document lists the outcome of every transformation tried.
ListsEveryOutcome(d, b) ==
  /\ Len(d.processingResults) = Len(b.attempts)
  /\ \A j \in DOMAIN b.attempts :
       /\ d.processingResults[j].transformType = b.attempts[j].suffix
       /\ d.processingResults[j].status = "success" <=> b.attempts[j].ok

\* A record whose transformations were tried has its batch document, or an
\* error document in its place.
Documented(b) ==
  \E i \in DOMAIN documents :
    /\ documents[i].record = b.record
    /\ documents[i].originalKey = records[b.record].key
    /\ \/ documents[i].status = "completed" /\ ListsEveryOutcome(documents[i], b)
       \/ documents[i].status = "error"

\* The same for the records the catch (err) block handled.
SecondLoopDocumented ==
  \A i \in DOMAIN batches :
    (batches[i].attempts[1].loop = "second" /\ ThroughWith(batches[i].record))
      => Documented(batches[i])

\* C17 (batch metadata): once handleS3Event is through with a record whose
\* transformations were all tried, the metadata table has a batch document for
\* the record that lists every transformation's outcome, or, when that write
\* failed, an error document for the record.
C17_BatchMetadata ==
  \A i \in DOMAIN batches :
    ThroughWith(batches[i].record) => Documented(batches[i])

\* Nothing was done for record r: no object fetched, no transformation tried,
\* nothing put in the output bucket or in the metadata table.
Untouched(r) ==
  /\ \A f \in fetches : f.record # r
  /\ ~(ri = r /\ attempts # << >>)
  /\ \A i \in DOMAIN batches : batches[i].record # r
  /\ \A j \in DOMAIN Transformations(TRUE) :
       OutputKey(records[r].key, Transformations(TRUE)[j]) \notin outputs
  /\ \A i \in DOMAIN documents : documents[i].record # r

\* A record whose key has no image extension is left alone.
ExtensionFiltered ==
  \A r \in DOMAIN records :
    (records[r].wellFormed /\ FileExtension(records[r].key) \notin IMAGE_FORMATS)
      => Untouched(r)

\* C18 (batch filtering): for a record whose key does not end in an image
\* extension of the allow-list, or lies outside 'uploads/', handleS3Event
\* fetches no object, tries no transformation and writes nothing to the
\* output bucket or the metadata table.
C18_BatchFiltering ==
  \A r \in DOMAIN records :
    (/\ records[r].wellFormed
     /\ \/ FileExtension(records[r].key) \notin IMAGE_FORMATS
        \/ ~StartsWith(records[r].key, "uploads/"))
      => Untouched(r)

(***************************************************************************)
(* Properties of buildResponseHeaders                                      *)
(***************************************************************************)

\* No header of the result is undefined, and a header that was undefined is
\* not in the result unless the status forces it.
NoUndefinedHeader ==
  \A i \in DOMAIN ret :
    /\ \A n \in DOMAIN ret[i] : ret[i][n] # Absent
    /\ \A n \in DOMAIN arg[i].headers :
         (arg[i].headers[n] = Absent /\ n # "Cache-Control") => n \notin DOMAIN ret[i]

\* 400..499: max-age=10,public.
ClientErrorsShortLived ==
  \A i \in DOMAIN ret :
    (arg[i].statusCode >= 400 /\ arg[i].statusCode <= 499)
      => (/\ "Cache-Control" \in DOMAIN ret[i]
          /\ ret[i]["Cache-Control"] = "max-age=10,public")

\* 500..599: max-age=600,public.
ServerErrorsLongerLived ==
  \A i \in DOMAIN ret :
    (arg[i].statusCode >= 500 /\ arg[i].statusCode <= 599)
      => (/\ "Cache-Control" \in DOMAIN ret[i]
          /\ ret[i]["Cache-Control"] = "max-age=600,public")

\* Any other status: the Cache-Control the response carried, or none.
UpstreamKept ==
  \A i \in DOMAIN ret :
    (arg[i].statusCode < 400 \/ arg[i].statusCode > 599)
      => IF arg[i].headers["Cache-Control"] = Absent
           THEN "Cache-Control" \notin DOMAIN ret[i]
           ELSE /\ "Cache-Control" \in DOMAIN ret[i]
                /\ ret[i]["Cache-Control"] = arg[i].headers["Cache-Control"]

\* C20 (header policy): buildResponseHeaders returns no header whose value
\* was undefined; Cache-Control is 'max-age=10,public' for a status in
\* 400..499 and 'max-age=600,public' for a status in 500..599, whatever the
\* response carried; for any other status the response's Cache-Control is kept.
C20_HeaderPolicy ==
  /\ NoUndefinedHeader
  /\ ClientErrorsShortLived
  /\ ServerErrorsLongerLived
  /\ UpstreamKept

(***************************************************************************)
(* Properties of handler(): the HeadObject request                         *)
(***************************************************************************)

\* handler() is through with an event that has no getObjectContext, in
\* write-back mode.
HeadProbeDone == hpc = "done" /\ env.objectLambda /\ ~hasContext.present

\* C19 (HEAD-only probe): in write-back mode the result for an event without
\* getObjectContext has statusCode and headers and nothing else, the headers
\* have Content-Length, the length of the response's body, and no
\* writeGetObjectResponse call was made.
C19_HeadOnlyProbe ==
  HeadProbeDone =>
    /\ hresult.kind = "returned"
    /\ DOMAIN hresult.value = { "statusCode", "headers" }
    /\ hresult.value.statusCode = finalResponse.statusCode
    /\ "Content-Length" \in DOMAIN hresult.value.headers
    /\ hresult.value.headers["Content-Length"] = ToString(BodyLen(finalResponse.body))
    /\ written = << >>

\* A HeadObject request for an image that was processed.
C19_Witness ==
  /\ HeadProbeDone
  /\ hresult.kind = "returned"
  /\ hresult.value.statusCode = StatusOK
  /\ finalResponse.body.kind = "image"
  /\ "Expires" \notin DOMAIN hresult.value.headers

(***************************************************************************)
(* Properties of handleRequest: errors                                     *)
(***************************************************************************)

\* handleRequest resolved after catching an error that has no status.
PlainErrorAnswered == rpc = "resolved" /\ rerr.kind = "error" /\ rerr.status = 0

\* The response of getErrorResponse for an error without status.
InternalErrorResponse ==
  Response(StatusInternalServerError, FALSE,
           ErrorBody(StatusInternalServerError, "InternalError"))

\* C21 as stated (no leak of internal errors): for an error that has no
\* status the response has status 500 and the fixed InternalError body.
C21_AlwaysInternalError == PlainErrorAnswered => response = InternalErrorResponse

\* C21 (no leak of internal errors): for an error that has no status the
\* response has status 500 and is the fixed InternalError response or, when
\* the fallback image is enabled and was fetched, that image; it is the same
\* for any two such errors.
C21_NoLeak ==
  PlainErrorAnswered =>
    /\ response.statusCode = StatusInternalServerError
    /\ response =
         IF fetched = "ok"
           THEN Response(StatusInternalServerError, TRUE,
                         ImageBody("fallback", Buffer(env.fallbackImage, << >>, "orig"),
                                   BodyEncoding))
           ELSE InternalErrorResponse

\* A TypeError answered with the InternalError response.
C21_Witness ==
  /\ PlainErrorAnswered
  /\ rerr = PlainTypeError
  /\ response = InternalErrorResponse

(***************************************************************************)
(* Properties of process(): the failure kinds                              *)
(***************************************************************************)

\* The step a failed call failed at, as its log tells.
FailedAt(p) == log[p][Len(log[p])]

\* The failure of a request that finds no artifact: the metadata probe, the
\* source format, the edits or the conversion.
FailureKindOf(r) ==
  IF ProbeThrows(r) THEN "probe:failed"
  ELSE IF ~SourceSupported(r) THEN "unsupported"
  ELSE IF r.edits.given /\ ~Image(r.originalImage).decodes THEN "edit"
  ELSE IF WantsFormat(r) /\ ~Image(r.originalImage).decodes THEN "format"
  ELSE "none"

\* The call failed, and so did the call before it, in another way.
FailedTwice(p) ==
  /\ Completed(p)
  /\ out[p].kind = "error"
  /\ loc[p].prevOut.kind = "error"
  /\ FailureKindOf(req[p]) # FailureKindOf(loc[p].prevReq)

\* C22 as stated (distinct statuses): two failures of different kinds have
\* different statuses.
C22_DistinctStatuses ==
  \A p \in Procs : FailedTwice(p) => out[p].status # loc[p].prevOut.status

\* C22 (distinct codes): a failed metadata probe gives ImageProcessingError
\* with status 500, an unsupported source format ImageFormatNotSupported with
\* status 400, failed edits ImageEditsError with status 500 and a failed
\* conversion ImageFormatError with status 500: two failures of different
\* kinds have different codes, and only the unsupported format has a status
\* of its own.
C22_DistinctCodes ==
  \A p \in Procs :
    /\ (Completed(p) /\ out[p].kind = "error") =>
         /\ FailedAt(p) = FailureKindOf(req[p])
         /\ out[p] = CASE FailedAt(p) = "probe:failed" ->
                            Thrown(StatusInternalServerError, "ImageProcessingError")
                       [] FailedAt(p) = "unsupported" ->
                            Thrown(StatusBadRequest, "ImageFormatNotSupported")
                       [] FailedAt(p) = "edit" ->
                            Thrown(StatusInternalServerError, "ImageEditsError")
                       [] FailedAt(p) = "format" ->
                            Thrown(StatusInternalServerError, "ImageFormatError")
    /\ FailedTwice(p) => out[p].code # loc[p].prevOut.code

\* A failed conversion after failed edits: the same status, another code.
C22_Witness ==
  /\ FailedTwice("p1")
  /\ FailedAt("p1") = "format"
  /\ loc["p1"].prevOut = Thrown(StatusInternalServerError, "ImageEditsError")
  /\ out["p1"].status = loc["p1"].prevOut.status

(***************************************************************************)
(* Properties of the fallback image's Cache-Control                        *)
(***************************************************************************)

\* The fallback response was delivered.
FallbackDelivered == Len(ret) = 2 /\ "objectCacheControl" \in DOMAIN arg[1]

\* The Cache-Control the client gets.
DeliveredCacheControl ==
  IF ret[2].kind = "written" THEN ret[2].params.CacheControl
  ELSE ret[2].value.headers["Cache-Control"]

\* The fallback object's own, else the request's, else the default.
CacheControlByPriority ==
  IF arg[1].objectCacheControl # Absent THEN arg[1].objectCacheControl
  ELSE IF ~arg[1].parsed.throws /\ arg[1].parsed.value # Absent THEN arg[1].parsed.value
  ELSE "max-age=31536000,public"

\* C23 as stated (fallback cache-control priority): in both deliveries the
\* Cache-Control of a fallback image is the object's own, else the request's,
\* else the one-year default.
C23_PriorityInBothModes == FallbackDelivered => DeliveredCacheControl = CacheControlByPriority

\* C23 (fallback cache-control priority): the response of the fallback image
\* carries the object's own Cache-Control, else the request's, else the
\* one-year default, and direct-proxy delivery returns it so; write-back
\* delivery replaces it by 'max-age=10,public' for a 4xx status and by
\* 'max-age=600,public' for a 5xx status, and the fallback image always has
\* the status of an error.
C23_Priority ==
  /\ (Len(ret) >= 1 /\ "objectCacheControl" \in DOMAIN arg[1]) =>
       ret[1].headers["Cache-Control"] = CacheControlByPriority
  /\ FallbackDelivered =>
       IF ~arg[1].objectLambda THEN DeliveredCacheControl = CacheControlByPriority
       ELSE IF ret[1].statusCode <= 499 THEN DeliveredCacheControl = "max-age=10,public"
       ELSE DeliveredCacheControl = "max-age=600,public"

\* Direct-proxy delivery of a fallback image whose object has no
\* Cache-Control, for a request that has one.
C23_Witness ==
  /\ FallbackDelivered
  /\ ~arg[1].objectLambda
  /\ arg[1].objectCacheControl = Absent
  /\ arg[1].parsed.value = "max-age=120,public"
  /\ DeliveredCacheControl = "max-age=120,public"

(***************************************************************************)
(* Properties of normalizeEvent                                            *)
(***************************************************************************)

\* The key as the claim recovers it: one leading 'ol-' removed.
WithoutPrefix(k) == IF StartsWith(k, "ol-") THEN SubSeq(k, 4, Len(k)) ELSE k

\* Parameter i of the URL is in the normalized event under its recovered key.
RecoveredParam(i) ==
  LET param == arg[1].params[i]
      found == ret[1].queryStringParameters
  IN  /\ WithoutPrefix(param.k) \in DOMAIN found
      /\ found[WithoutPrefix(param.k)] = param.v

\* No two parameters of the URL have the same recovered key, and no value
\* has a question mark in it.
PlainQuery ==
  /\ \A i, j \in DOMAIN arg[1].params :
       i # j => WithoutPrefix(arg[1].params[i].k) # WithoutPrefix(arg[1].params[j].k)
  /\ \A i \in DOMAIN arg[1].params : ~Includes(arg[1].params[i].v, "?")

\* For such a URL every parameter is recovered, and nothing else is there.
PlainQueryRecovered ==
  (Len(ret) = 1 /\ PlainQuery) =>
    /\ \A i \in DOMAIN arg[1].params : RecoveredParam(i)
    /\ DOMAIN ret[1].queryStringParameters
         = { WithoutPrefix(arg[1].params[i].k) : i \in DOMAIN arg[1].params }
    /\ ret[1].path = "/u/a.png"

\* C24 (query-parameter recovery): every query parameter k=v of the URL is
\* in the normalized event as k'=v, k' being k without one leading 'ol-'.
C24_QueryRecovery ==
  Len(ret) = 1 => \A i \in DOMAIN arg[1].params : RecoveredParam(i)

(***************************************************************************)
(* Properties of convertHexToRgb                                           *)
(***************************************************************************)

\* The digits of a text that is n hex digits with or without a leading '#'.
HexDigitsOf(hex) == IF CharAt(hex, 1) = "#" THEN SubSeq(hex, 2, Len(hex)) ELSE hex

IsHexOfLength(hex, n) ==
  /\ hex # ""
  /\ Len(HexDigitsOf(hex)) = n
  /\ \A i \in 1..n : CharAt(HexDigitsOf(hex), i) \in
       { "0", "1", "2", "3", "4", "5", "6", "7", "8", "9",
         "a", "b", "c", "d", "e", "f", "A", "B", "C", "D", "E", "F" }

\* The value of a hex digit.
DigitValue(c) ==
  CASE c \in { "a", "A" } -> 10 [] c \in { "b", "B" } -> 11 [] c \in { "c", "C" } -> 12
    [] c \in { "d", "D" } -> 13 [] c \in { "e", "E" } -> 14 [] c \in { "f", "F" } -> 15
    [] c = "0" -> 0 [] c = "1" -> 1 [] c = "2" -> 2 [] c = "3" -> 3 [] c = "4" -> 4
    [] c = "5" -> 5 [] c = "6" -> 6 [] c = "7" -> 7 [] c = "8" -> 8 [] c = "9" -> 9

\* C25 (hex colour parsing): convertHexToRgb returns (it never raises); for
\* three hex digits, with or without '#', it returns the colour of the six
\* digits made by doubling each digit; for six hex digits their three byte
\* values; for every other text { r: 0, g: 0, b: 0 }.
C25_HexParsing ==
  \A i \in DOMAIN ret :
    LET hex == arg[i]
        d == HexDigitsOf(hex)
    IN  /\ ret[i].kind = "ok"
        /\ IF IsHexOfLength(hex, 3)
             THEN /\ ret[i].body = [r |-> 17 * DigitValue(CharAt(d, 1)),
                                    g |-> 17 * DigitValue(CharAt(d, 2)),
                                    b |-> 17 * DigitValue(CharAt(d, 3))]
                  /\ ret[i].body =
                       convertHexToRgb(CharAt(d, 1) \o CharAt(d, 1) \o CharAt(d, 2)
                                         \o CharAt(d, 2) \o CharAt(d, 3) \o CharAt(d, 3))
           ELSE IF IsHexOfLength(hex, 6)
             THEN ret[i].body =
                    [r |-> 16 * DigitValue(CharAt(d, 1)) + DigitValue(CharAt(d, 2)),
                     g |-> 16 * DigitValue(CharAt(d, 3)) + DigitValue(CharAt(d, 4)),
                     b |-> 16 * DigitValue(CharAt(d, 5)) + DigitValue(CharAt(d, 6))]
           ELSE ret[i].body = [r |-> 0, g |-> 0, b |-> 0]

\* '#fA8' parsed as '#ffAA88'.
C25_Witness ==
  /\ Len(ret) = 1
  /\ arg[1] = "#fA8"
  /\ ret[1] = Returned([r |-> 255, g |-> 170, b |-> 136])

(***************************************************************************)
(* Properties of the store on a miss                                       *)
(***************************************************************************)

\* The call of p returned a result that the engine computed.
ComputedResult(p) ==
  /\ pc[p] = "done"
  /\ out[p].kind = "ok"
  /\ InLog(p, "edit") \/ InLog(p, "format")

\* The call of p attempted the store.
StoreAttempted(p) == InLog(p, "upload:ok") \/ InLog(p, "upload:failed")

\* The call of p stored the artifact and its record, neither write failing.
StoredBoth(p) == InLog(p, "upload:ok") /\ InLog(p, "meta:ok")

\* A call made while the artifact of its fingerprint was stored, whose check
\* did not fail, is a hit.
HitWhenStored(p) ==
  (/\ log[p] # << >>
   /\ loc[p].storeAtCall[IdOf(p)].present
   /\ log[p][1] # "check:failed") => log[p][1] = "check:hit"

\* C26 as stated (store on miss): with caching enabled every call that
\* computes a result attempts to store it before it returns.
C26_StoreOnMiss ==
  \A p \in Procs : (cacheEnabled /\ ComputedResult(p)) => StoreAttempted(p)

\* C26 as the code has it: with caching enabled every call that converts its
\* result to a requested, supported output format attempts to store the
\* artifact and its record under the fingerprint before it returns; when
\* neither write fails the artifact returned is the one stored, and a call
\* made while it is stored is a hit unless its check fails.
C26_StoreOnFormat ==
  \A p \in Procs :
    /\ (cacheEnabled /\ ComputedResult(p) /\ InLog(p, "format")) =>
         /\ StoreAttempted(p)
         /\ StoredBoth(p) =>
              /\ store[IdOf(p)].present
              /\ meta[IdOf(p)].present
              /\ \/ store[IdOf(p)].body = out[p].body
                 \/ \E q \in Procs \ { p } : pc[q] # "idle"
    /\ HitWhenStored(p)

\* A call stored its result and the same request, made again at once, is
\* answered from the store.
C26_Witness ==
  \E p \in Procs :
    /\ pc[p] = "done"
    /\ cacheEnabled
    /\ req[p] = ReqA
    /\ loc[p].prevReq = ReqA
    /\ loc[p].prevOut = out[p]
    /\ out[p].kind = "ok"
    /\ loc[p].metaAtCall[IdOf(p)].present
    /\ log[p] = << "check:hit", "stats:read", "stats:updated", "fetch:ok" >>

(***************************************************************************)
(* Properties of the write-back calls                                      *)
(***************************************************************************)

\* The writeGetObjectResponse call i carries the route and the token of the
\* event of the invocation.
RoutedToCaller(i) ==
  /\ written[i].params.RequestRoute = hasContext.outputRoute
  /\ written[i].params.RequestToken = hasContext.outputToken

\* C27 (write-back call discipline): an invocation in write-back mode with a
\* getObjectContext makes one or two writeGetObjectResponse calls, the second
\* only after the first failed, each with the outputRoute and outputToken of
\* its event; in direct-proxy mode no call is made and no timer is armed.
C27_WriteDiscipline ==
  /\ Len(written) <= 2
  /\ Len(written) = 2 => ~written[1].ok
  /\ \A i \in DOMAIN written : RoutedToCaller(i)
  /\ written # << >> => env.objectLambda /\ hasContext.present
  /\ (hpc = "done" /\ env.objectLambda /\ hasContext.present) => Len(written) >= 1
  /\ (hpc = "done" /\ Len(written) = 1 /\ hresult.kind = "void") => written[1].ok
  /\ ~env.objectLambda => written = << >> /\ timer = NoTimer /\ ~hasContext.present

\* The first write failed and the second one was made, both for the second
\* caller.
C27_Witness ==
  /\ hpc = "done"
  /\ hasContext = GetObjectContext("route-2", "token-2")
  /\ Len(written) = 2
  /\ ~written[1].ok
  /\ written[2].ok
  /\ written[2].params.RequestToken = "token-2"

(***************************************************************************)
(* Properties of the fetch of the source object                            *)
(***************************************************************************)

\* A record handleS3Event transforms: readable, under uploads/, with an image
\* extension.
Qualifying(r) ==
  /\ records[r].wellFormed
  /\ StartsWith(records[r].key, "uploads/")
  /\ FileExtension(records[r].key) \in IMAGE_FORMATS

\* The loop over the records is through with record r.
Handled(r) == r < ri \/ (r = ri /\ bpc = "done")

\* The getObject calls made for record r.
FetchesOf(r) == { f \in fetches : f.record = r }

\* The request built for an attempt on the object under key.
RequestOf(key, a) ==
  IF a.loop = "first"
    THEN FirstLoopRequest(key, a.suffix)
    ELSE SyntheticRequest(key,
                          CHOOSE t \in { Transformations(TRUE)[k] :
                                           k \in DOMAIN Transformations(TRUE) } :
                            t.suffix = a.suffix)

\* Every request built for record r carries the bytes of its source object.
ReusesFetchedBytes(r) ==
  \A i \in DOMAIN batches :
    batches[i].record = r =>
      \A j \in DOMAIN batches[i].attempts :
        RequestOf(records[r].key, batches[i].attempts[j]).originalImage
          = SourceObjects[records[r].key].image

\* C28 (single fetch): for each qualifying upload record the source object is
\* fetched exactly once while the record is handled, and the request of every
\* variant carries those bytes.
C28_SingleFetch ==
  \A r \in DOMAIN records :
    (Qualifying(r) /\ Handled(r)) =>
      /\ Cardinality(FetchesOf(r)) = 1
      /\ ReusesFetchedBytes(r)

\* The fetch is made once where it succeeds at once.
FetchedOnceWhenFirstSucceeds ==
  \A r \in DOMAIN records :
    (Handled(r) /\ GetObjectCall(r, "first", TRUE) \in fetches) =>
      Cardinality(FetchesOf(r)) = 1

\* The variants of the catch (err) block all carry the bytes of its fetch,
\* which is the second call for the record.
SecondLoopReusesBytes ==
  \A i \in DOMAIN batches :
    (\E j \in DOMAIN batches[i].attempts : batches[i].attempts[j].loop = "second") =>
      /\ ReusesFetchedBytes(batches[i].record)
      /\ FetchesOf(batches[i].record) =
           { GetObjectCall(batches[i].record, "first", FALSE),
             GetObjectCall(batches[i].record, "second", TRUE) }

(***************************************************************************)
(* Properties of the order of the variants                                 *)
(***************************************************************************)

\* The variants before variant vi of the loop at work, in the order of its
\* list, each with its outcome.
EarlierVariantsOver(loop, suffixes) ==
  /\ Len(attempts) = vi - 1
  /\ \A j \in 1..(vi - 1) :
       attempts[j].loop = loop /\ attempts[j].suffix = suffixes[j]

\* The suffixes of the transformations of the catch (err) block.
SecondSuffixes ==
  [j \in DOMAIN Transformations(benv.watermark) |->
     Transformations(benv.watermark)[j].suffix]

\* process() is at work.
InProcess == pc["p1"] \notin { "idle", "done" }

\* C29 (sequential variants): within one record variant i+1 starts only after
\* the processing and the output write of variant i have completed or failed;
\* no two variants of an object are in progress at a time.
C29_Sequential ==
  /\ bpc = "firstVariant" => EarlierVariantsOver("first", FirstTransformations)
  /\ bpc \in { "secondCall", "secondProcess" } =>
       /\ EarlierVariantsOver("second", SecondSuffixes)
       /\ \A j \in 1..(vi - 1) :
            attempts[j].ok => OutputKey(CurrentKey, Transformations(benv.watermark)[j])
                                \in outputs
       /\ ri = 1 =>
            \A j \in vi..Len(SecondSuffixes) :
              OutputKey(CurrentKey, Transformations(benv.watermark)[j]) \notin outputs
  /\ bpc = "secondCall" => ~InProcess
  /\ InProcess =>
       /\ bpc = "secondProcess"
       /\ req["p1"] = SyntheticRequest(CurrentKey, CurrentTransform)

\* The second variant is being processed after the first one was written.
C29_Witness ==
  /\ bpc = "secondProcess"
  /\ vi = 2
  /\ pc["p1"] = "format"
  /\ attempts = << Attempt("second", "thumb", TRUE) >>
  /\ outputs = { OutputKey(CurrentKey, Transformations(FALSE)[1]) }

(***************************************************************************)
(* Properties of the pass-through                                          *)
(***************************************************************************)

\* The call of p found no artifact (or could not check for one).
CacheMiss(p) == log[p] # << >> /\ log[p][1] \in { "check:miss", "check:failed" }

\* A supported source, no edits object and no supported output format.
PassThroughRequest(r) ==
  /\ ~ProbeThrows(r)
  /\ SourceSupported(r)
  /\ ~r.edits.given
  /\ ~WantsFormat(r)

\* The call of p returned the source bytes, edited and formatted nothing, and
\* left both stores as they were when it was made.
PassedThrough(p) ==
  /\ out[p] = Returned(SourceBuffer(req[p]))
  /\ ~InLog(p, "edit")
  /\ ~InLog(p, "format")
  /\ ~StoreAttempted(p)
  /\ store = loc[p].storeAtCall
  /\ meta = loc[p].metaAtCall

FailedStoreRecorded(p) ==
  /\ pc[p] = "done"
  /\ InLog(p, "upload:failed") \/ InLog(p, "meta:failed")
  /\ InLog(p, "failmeta:ok")

\* The error of the failed store reached process(), which logs it and goes on.
FailedStoreRethrown(p) ==
  (pc[p] = "done" /\ (InLog(p, "upload:failed") \/ InLog(p, "meta:failed"))) =>
    /\ InLog(p, "failmeta:ok") \/ InLog(p, "failmeta:failed")
    /\ ~(InLog(p, "upload:ok") /\ InLog(p, "meta:ok"))

\* C31 (failed store): when the upload or the metadata write of
\* storeProcessedImage fails, the error is rethrown and the record left for
\* the key has processingStatus 'failed' with a processingError, never
\* 'processed', whatever metadata the caller passed in.
C31_FailedStore ==
  /\ FailedStoreRethrown("p1")
  /\ FailedStoreRecorded("p1") =>
       /\ meta[IdOf("p1")].present
       /\ meta[IdOf("p1")].processingError
       /\ meta[IdOf("p1")].processingStatus = "failed"

(***************************************************************************)
(* Properties of the upload handler                                        *)
(***************************************************************************)

\* The content type header the request carries, in either spelling.
SentContentType(headers) ==
  IF ~headers.present THEN ""
  ELSE IF headers.lower \notin { Absent, "" } THEN headers.lower
  ELSE IF headers.upper \notin { Absent, "" } THEN headers.upper
  ELSE ""

\* The parts of the request that carry a file.
FileParts(parts) ==
  { i \in DOMAIN parts :
      parts[i].fileName # Absent /\ parts[i].fileType # Absent /\ parts[i].hasContent }

\* The request passes every check of the claim, for its first file part.
UploadAcceptable(a) ==
  /\ a.sourceBucket # ""
  /\ a.headers.present
  /\ Includes(SentContentType(a.headers), "multipart/form-data")
  /\ Includes(SentContentType(a.headers), "boundary=x")
  /\ FileParts(a.parts) # { }
  /\ LET f == a.parts[CHOOSE i \in FileParts(a.parts) :
                        \A j \in FileParts(a.parts) : i <= j]
     IN  /\ f.size <= MAX_ALLOWED_SIZE
         /\ \E e \in ALLOWED_FORMATS, u \in { ".JPG", ".PNG" } \cup ALLOWED_FORMATS :
              /\ toLowerCase(u) = e
              /\ Len(f.fileName) > Len(u)
              /\ SubSeq(f.fileName, Len(f.fileName) - Len(u) + 1, Len(f.fileName)) = u

\* C32 (upload validation): the upload handler answers every request; it
\* writes one object to the source bucket only when the bucket is configured,
\* the content type is multipart/form-data, a file part was found, the file
\* is at most MAX_ALLOWED_SIZE long and its extension is in ALLOWED_FORMATS;
\* a request failing a check gets 400 (500 for the missing bucket or an
\* unexpected failure) and nothing is written.
C32_UploadValidation ==
  \A i \in DOMAIN ret :
    /\ DOMAIN ret[i] = { "response", "puts" }
    /\ ret[i].response.statusCode \in { 200, 400, 500 }
    /\ ret[i].puts # << >> =>
         /\ UploadAcceptable(arg[i])
         /\ Len(ret[i].puts) = 1
         /\ ret[i].puts[1].Bucket = arg[i].sourceBucket
         /\ ret[i].response.statusCode = 200
    /\ ret[i].response.statusCode = 200 <=> ret[i].puts # << >>
    /\ ~UploadAcceptable(arg[i]) =>
         /\ ret[i].puts = << >>
         /\ ret[i].response.statusCode =
              IF arg[i].sourceBucket = "" \/ ~arg[i].headers.present THEN 500 ELSE 400
    /\ (UploadAcceptable(arg[i]) /\ ~arg[i].putOk) => ret[i].response.statusCode = 500
    /\ (UploadAcceptable(arg[i]) /\ arg[i].putOk) => ret[i].puts # << >>

\* A file of exactly MAX_ALLOWED_SIZE with an upper-case extension, behind a
\* part that carries no file, is written under the upload prefix.
C32_Witness ==
  /\ Len(ret) = 1
  /\ arg[1].parts = << Part(Absent, "text/plain", TRUE, 3),
                       Part("edge.JPG", "image/jpeg", TRUE, MAX_ALLOWED_SIZE) >>
  /\ ret[1].response.statusCode = 200
  /\ ret[1].puts[1].Key = "uploads/edge_1700000000000_ab12.JPG"

(***************************************************************************)
(* Properties of the access count                                          *)
(***************************************************************************)

\* The call of p was a cache hit whose access statistics were read and
\* updated.
CountedHit(p) ==
  /\ pc[p] = "done"
  /\ InLog(p, "check:hit")
  /\ InLog(p, "stats:read")
  /\ InLog(p, "stats:updated")

\* The two calls were made for one fingerprint while its record was the same:
\* neither had updated it when the other was made.
ConcurrentHits ==
  /\ CountedHit("p1")
  /\ CountedHit("p2")
  /\ IdOf("p1") = IdOf("p2")
  /\ loc["p1"].metaAtCall = loc["p2"].metaAtCall
  /\ loc["p1"].metaAtCall[IdOf("p1")].present

\* C33 (no lost access counts): after k concurrent cache hits for one
\* fingerprint, interleaved between the read and the update of
\* updateAccessStats, the accessCount is exactly k higher than before.
C33_NoLostCount ==
  ConcurrentHits =>
    meta[IdOf("p1")].accessCount = loc["p1"].metaAtCall[IdOf("p1")].accessCount + 2

\* The accessCount of a fingerprint's record, 0 while it has none.
CountOf(m, id) == IF m[id].present THEN m[id].accessCount ELSE 0

\* C34 (monotone access count): no step of any process() call lowers or
\* resets the accessCount of a fingerprint's record, a re-store of the
\* fingerprint included.
C34_MonotoneCount ==
  [][\A id \in ImageIds : CountOf(meta', id) >= CountOf(meta, id)]_vars

(***************************************************************************)
(* Properties of process() with the cache flag off                         *)
(***************************************************************************)

\* The result process() computes for request r from its source bytes alone.
ComputedFrom(r) ==
  IF ProbeThrows(r) THEN Thrown(StatusInternalServerError, "ImageProcessingError")
  ELSE IF ~SourceSupported(r) THEN Thrown(StatusBadRequest, "ImageFormatNotSupported")
  ELSE IF r.edits.given /\ ~EngineCanRender(SourceBuffer(r)) THEN ImageEditsError
  ELSE LET modified == IF r.edits.given THEN applyEdits(SourceBuffer(r), r.edits)
                       ELSE SourceBuffer(r)
       IN  IF ~WantsFormat(r) THEN Returned(modified)
           ELSE IF ~EngineCanRender(modified)
             THEN Thrown(StatusInternalServerError, "ImageFormatError")
           ELSE Returned(applyFormatting(modified, r.outputFormat))

\* The call of p made no read of the artifact store or the metadata store.
NoStoreRead(p) ==
  \A i \in DOMAIN log[p] :
    log[p][i] \notin { "check:hit", "check:miss", "check:failed", "stats:read",
                       "stats:norecord", "stats:failed", "stats:updated",
                       "fetch:ok", "fetch:failed" }

\* With the flag off a call stores no artifact and no record; what it writes
\* is the access statistics of a hit.
NoWriteWhenOff ==
  ~cacheEnabled =>
    \A p \in Procs :
      /\ ~StoreAttempted(p)
      /\ ~InLog(p, "stats:updated") => (pc[p] # "idle" => /\ store = loc[p].storeAtCall
                                                          /\ meta = loc[p].metaAtCall)

\* With the flag off a call returns what it computes from its source bytes.
ComputedWhenOff ==
  ~cacheEnabled =>
    \A p \in Procs : pc[p] = "done" => out[p] = ComputedFrom(req[p])

\* C35 (cache flag off): when ENABLE_CACHE is not 'Yes', process() neither
\* reads nor writes the artifact store or the metadata store, returns no
\* stored bytes, updates no access statistics, and computes its result from
\* the source bytes of the request.
C35_CacheOff ==
  ~cacheEnabled =>
    \A p \in Procs :
      /\ NoStoreRead(p)
      /\ ~StoreAttempted(p)
      /\ pc[p] # "idle" => store = loc[p].storeAtCall /\ meta = loc[p].metaAtCall
      /\ pc[p] = "done" => out[p] = ComputedFrom(req[p])

\* C36 (cache transparency): whatever requests and source-object changes came
\* before, the bytes process() returns with the cache in use are the bytes it
\* returns for the same request (same source bytes, edits and output format)
\* with an empty cache.
C36_CacheTransparency ==
  (cacheEnabled /\ pc["p1"] = "done" /\ out["p1"].kind = "ok") =>
    out["p1"] = ComputedFrom(req["p1"])

\* The status of the error handleRequest caught, 500 when it has none.
TriggeringStatus ==
  IF rerr.status # 0 THEN rerr.status ELSE StatusInternalServerError

\* resp is the fallback image.
IsFallbackResponse(resp) ==
  "body" \in DOMAIN resp /\ resp.body.kind = "fallback"

\* C37 (fallback status): a fallback-image response carries the status of the
\* error that triggered it (the error's status, or 500 when the error has
\* none), never 200, and is marked base64-encoded; the handler's return
\* value and the writeGetObjectResponse parameters that deliver it carry the
\* same status.
C37_FallbackStatus ==
  /\ (rpc = "resolved" /\ IsFallbackResponse(response)) =>
       /\ rerr # NoError
       /\ response.statusCode = TriggeringStatus
       /\ response.statusCode # StatusOK
       /\ response.isBase64Encoded
  /\ (hresult.kind = "returned" /\ IsFallbackResponse(hresult.value)) =>
       /\ hresult.value.statusCode = TriggeringStatus
       /\ hresult.value.statusCode # StatusOK
       /\ hresult.value.isBase64Encoded
  /\ (hresult.kind = "returned" /\ IsFallbackResponse(finalResponse)) =>
       /\ hresult.value.statusCode = TriggeringStatus
       /\ hresult.value.statusCode # StatusOK
  /\ \A i \in DOMAIN written :
       written[i].params.Body.kind = "fallback" =>
         /\ written[i].params.StatusCode = TriggeringStatus
         /\ written[i].params.StatusCode # StatusOK

\* An error without a status brought the fallback image, which was written
\* back with status 500.
C37_Witness ==
  /\ hpc = "done"
  /\ rerr # NoError
  /\ rerr.status = 0
  /\ fetched = "ok"
  /\ written # << >>
  /\ written[1].params.Body.kind = "fallback"
  /\ written[1].params.StatusCode = StatusInternalServerError
  /\ response.isBase64Encoded

\* The edits of the two requests are equal as mappings: the same keys with
\* the same values.
SameEditsAsMappings(r1, r2) ==
  /\ r1.edits.given = r2.edits.given
  /\ EditKeys(r1.edits) = EditKeys(r2.edits)
  /\ \A k \in EditKeys(r1.edits) : EditOf(r1.edits, k) = EditOf(r2.edits, k)

\* The artifact a call for the other request stored is in the output bucket
\* with its record, and the call of p, for r, is past the existence check.
ChecksAfterOther(p, r, other) ==
  /\ cacheEnabled
  /\ req[p] = r
  /\ store[ImageIdOf[other]].present
  /\ meta[ImageIdOf[other]].present
  /\ \/ InLog(p, "check:hit")
     \/ InLog(p, "check:miss")

\* C38 (fingerprint ignores insertion order): two requests with the same
\* bucket, key and outputFormat whose edits are equal as mappings, inserted
\* in different orders, get the same fingerprint, and a call for either one
\* is a cache hit on the artifact stored for the other.
C38_InsertionOrder ==
  \A r1 \in ReorderedRequests, r2 \in ReorderedRequests :
    (/\ r1 # r2
     /\ r1.bucket = r2.bucket /\ r1.key = r2.key /\ r1.outputFormat = r2.outputFormat
     /\ SameEditsAsMappings(r1, r2)) =>
      /\ ImageIdOf[r1] = ImageIdOf[r2]
      /\ ChecksAfterOther("p1", r1, r2) => InLog("p1", "check:hit")

\* A call for a request with the edits in the other order hits the cache.
ReorderedHit ==
  \A r1 \in ReorderedRequests, r2 \in ReorderedRequests :
    (r1 # r2 /\ ChecksAfterOther("p1", r1, r2)) => InLog("p1", "check:hit")

====
